---------------------------- MODULE Spec2Model ----------------------------
(***************************************************************************)
(* A model of lib/h3core.js: the marshaling layer between JavaScript and   *)
(* the H3 engine compiled to a 32-bit heap.                                *)
(*                                                                         *)
(* Conventions of the model                                                *)
(*  - A JavaScript string of hexadecimal characters is a sequence of digit *)
(*    values 0..15; the value 16 stands for a character that is no         *)
(*    hexadecimal digit.  A non-string argument is the value NotAString.   *)
(*  - A machine word has HexDigitsPerWord hexadecimal digits (the source   *)
(*    has 8, i.e. 32 bits; the model scales the width so that word values  *)
(*    stay inside the model checker's integers).  Every constant of the    *)
(*    source that is derived from the word width (8, 0x7fffffff, 2^32) is  *)
(*    derived from HexDigitsPerWord here.                                  *)
(*  - Angles are fixed-point: degrees are integers, and the engine's       *)
(*    radians are counted in units of pi / PI.                             *)
(*  - Each public function is one action: JavaScript runs it to completion *)
(*    before anything else runs.  The events of the call (allocations,     *)
(*    frees, engine calls, reads, writes) are kept, in order, in trace.    *)
(***************************************************************************)
EXTENDS Integers, Sequences, FiniteSets, TLC

VARIABLES
    mem,        \* the foreign heap: [i32, f64, live]
    tempRet0,   \* the engine's out-of-band slot for the high word of a long
    op,         \* name of the last public function called
    args,       \* its arguments
    eng,        \* what the engine answered during the call
    trace,      \* the events of the call, in order
    result      \* what the call returned or threw

vars == <<mem, tempRet0, op, args, eng, trace, result>>

----------------------------------------------------------------------------
(* Bounds of the model *)

HexDigitsPerWord == 2   \* hexadecimal digits of a machine word (source: 8)
MaxCount == 2           \* largest capacity an engine estimator answers
MaxVerts == 2           \* most vertices the engine puts in a boundary or loop
MaxHoles == 1           \* most holes of a polygon passed to polyfill
MaxLeaked == 0          \* a call starts only with at most this many live blocks

----------------------------------------------------------------------------
(* Byte sizes (lines 33-41).  The SZ_ values the source asks the engine    *)
(* for are those of the engine's 32-bit build.                             *)

BASE_16 == 16
SZ_INT == 4
SZ_PTR == 4
SZ_DBL == 8
SZ_H3INDEX == 8
SZ_GEOCOORD == 16
SZ_GEOBOUNDARY == 168
SZ_GEOPOLYGON == 16
SZ_GEOFENCE == 8
SZ_LINKED_GEOPOLYGON == 12

UNITS == [m |-> "m", km |-> "km", m2 |-> "m2", km2 |-> "km2"]

----------------------------------------------------------------------------
(* JavaScript values *)

NotAString == <<-1>>            \* an identifier argument that is no string
Undefined == <<>>               \* the undefined value, where a point is expected
WordMod == BASE_16 ^ HexDigitsPerWord           \* 2^32 in the source
HalfMod == WordMod \div 2                       \* 2^31 in the source
NaN == 0 - (WordMod * WordMod)                  \* not-a-number

IsString(x) == x # NotAString

\* ToInt32: what a number becomes when it crosses into the engine or is
\* used by a bitwise operator
ToInt32(x) ==
    IF x = NaN THEN 0
    ELSE LET u == x % WordMod IN IF u >= HalfMod THEN u - WordMod ELSE u

\* parseInt(str, 16): the value of the longest prefix of hexadecimal digits,
\* NaN when that prefix is empty
RECURSIVE HexPrefixLen(_)
HexPrefixLen(str) ==
    IF str = <<>> \/ Head(str) >= BASE_16 THEN 0 ELSE 1 + HexPrefixLen(Tail(str))

RECURSIVE HexValue(_)
HexValue(str) ==
    IF str = <<>> THEN 0
    ELSE HexValue(SubSeq(str, 1, Len(str) - 1)) * BASE_16 + str[Len(str)]

parseInt(str) ==
    LET n == HexPrefixLen(str)
    IN  IF n = 0 THEN NaN ELSE HexValue(SubSeq(str, 1, n))

\* num.toString(16) for num >= 0
RECURSIVE toString16(_)
toString16(num) ==
    IF num < BASE_16 THEN <<num>>
    ELSE toString16(num \div BASE_16) \o <<num % BASE_16>>

\* str.substring(from) and str.substring(0, to), with JavaScript's clamping
substringFrom(str, from) ==
    LET f == IF from < 0 THEN 0 ELSE IF from > Len(str) THEN Len(str) ELSE from
    IN  SubSeq(str, f + 1, Len(str))

substringTo(str, to) ==
    LET t == IF to < 0 THEN 0 ELSE IF to > Len(str) THEN Len(str) ELSE to
    IN  SubSeq(str, 1, t)

\* str.charAt(i): the character at index i, or the empty string
charAt(str, i) == IF i + 1 \in DOMAIN str THEN <<str[i + 1]>> ELSE <<>>

----------------------------------------------------------------------------
(* Utilities and helpers (lines 55-158) *)

PI == 360       \* Math.PI, in the fixed-point unit of the model

degsToRads(deg) == (deg * PI) \div 180

radsToDegs(rad) == (rad * 180) \div PI

constrainLatGe(lat) == IF lat >= 90 THEN lat - 180 ELSE lat

constrainLat(lat) == IF lat > 90 THEN lat - 180 ELSE lat

constrainLng(lng) == IF lng > 180 THEN lng - 360 ELSE lng

\* A resolution argument is [type, twice]: twice is two times the number,
\* so that halves are representable.
ResNum(n) == [type |-> "number", twice |-> 2 * n]

floor2(twice) == 2 * (twice \div 2)

\* TRUE when validateRes throws
validateResThrows(res) ==
    \/ res.type # "number"
    \/ res.twice < 0
    \/ res.twice > 2 * 15
    \/ floor2(res.twice) # res.twice

h3AddressToSplitLong(h3Address) ==
    IF ~IsString(h3Address) THEN <<0, 0>>
    ELSE LET upper == parseInt(substringTo(h3Address, Len(h3Address) - HexDigitsPerWord))
             lower == parseInt(substringFrom(h3Address, Len(h3Address) - HexDigitsPerWord))
         IN  <<lower, upper>>

zeroPadNone(fullLen, numStr) == numStr

zeroPad(fullLen, numStr) ==
    LET numZeroes == fullLen - Len(numStr)
    IN  [i \in 1..(IF numZeroes > 0 THEN numZeroes ELSE 0) |-> 0] \o numStr

\* the negative branch without its zero padding
hexFrom32BitUnpadded(num) ==
    IF num # NaN /\ num >= 0 THEN toString16(num)
    ELSE LET masked == ToInt32(num) % HalfMod
             tempStr == toString16(masked)
             topNum == toString16(parseInt(<<tempStr[1]>>) + 8)
         IN  topNum \o substringFrom(tempStr, 1)

hexFrom32Bit(num) ==
    IF num # NaN /\ num >= 0 THEN toString16(num)
    ELSE LET masked == ToInt32(num) % HalfMod       \* num & 0x7fffffff
             tempStr == zeroPad(HexDigitsPerWord, toString16(masked))
             topNum == toString16(parseInt(<<tempStr[1]>>) + 8)
         IN  topNum \o substringFrom(tempStr, 1)

splitLongToH3Address(lower, upper) ==
    hexFrom32Bit(upper) \o zeroPad(HexDigitsPerWord, hexFrom32Bit(lower))


----------------------------------------------------------------------------
(* Sequencing.  Do(e, F) is F applied to the value of e: the steps of a    *)
(* function body are chained with it, each step bound to the machine state *)
(* the step before left.                                                   *)

Do(e, F(_)) == CHOOSE r \in {F(x) : x \in {e}} : TRUE

----------------------------------------------------------------------------
(* The foreign heap (C._malloc, C._calloc, C._free, C.getValue,            *)
(* C.setValue, C.HEAPF64.set, C.HEAPU32.set).                              *)
(*                                                                         *)
(* A machine state m is the heap and the engine's slot during one call:    *)
(*   i32, f64  the two views of the heap's contents, by byte address; a    *)
(*             cell holds what was last written to it in that view         *)
(*   live      the blocks allocated and not freed: base |-> bytes asked    *)
(*   enodes    the blocks among them that the engine allocated for itself  *)
(*   tempRet0  the out-of-band slot                                        *)
(*   trace     the events so far                                           *)
(*   ret       the value the last step returned                            *)
(*   result    what the call returns or throws                             *)
(*   fault     TRUE once the runtime has aborted the call                  *)
(*   junk, abortOnBadFree, scratch   choices of the environment, see Env   *)
(***************************************************************************)

\* an event: its kind, the engine function (for an engine call), two numbers
\* and the identifier words passed to the engine
EvIn(kind, name, a, b, in) == [ev |-> kind, name |-> name, a |-> a, b |-> b, in |-> in]

Ev(kind, name, a, b) == EvIn(kind, name, a, b, <<>>)

HeapBase == 4 * SZ_GEOCOORD

\* the bytes a block of the allocator occupies
Chunk(bytes) == IF bytes <= 12 THEN 16 ELSE 8 * ((bytes + 4 + 7) \div 8)

Overlaps(live, a, bytes) ==
    \E b \in DOMAIN live : a < b + Chunk(live[b]) /\ b < a + Chunk(bytes)

\* the lowest address at which a block of bytes fits
FirstFit(live, bytes) ==
    LET cands == {HeapBase} \cup {b + Chunk(live[b]) : b \in DOMAIN live}
        free == {a \in cands : ~Overlaps(live, a, bytes)}
    IN  CHOOSE a \in free : \A b \in free : a <= b

Cells(a, bytes) == {a + 4 * k : k \in 0..((bytes \div 4) - 1)}

Without(f, S) == [x \in (DOMAIN f) \ S |-> f[x]]

Emit(m, e) == [m EXCEPT !.trace = Append(@, e)]

AllocAt(m, a, bytes, zeroed, byEngine) ==
    [m EXCEPT !.live = (a :> bytes) @@ @,
              !.enodes = IF byEngine THEN @ \cup {a} ELSE @,
              !.i32 = IF zeroed
                      THEN [x \in Cells(a, bytes) |-> 0] @@ Without(@, Cells(a, Chunk(bytes)))
                      ELSE Without(@, Cells(a, Chunk(bytes))),
              !.f64 = Without(@, Cells(a, Chunk(bytes))),
              !.trace = IF byEngine THEN @ ELSE Append(@, Ev("malloc", "", a, bytes)),
              !.ret = a]

Malloc(m, bytes) ==
    IF m.fault THEN m
    ELSE Do(FirstFit(m.live, bytes), LAMBDA a : AllocAt(m, a, bytes, FALSE, FALSE))

\* C._calloc(count, size)
Calloc(m, count, size) ==
    IF m.fault THEN m
    ELSE Do(FirstFit(m.live, count * size),
            LAMBDA a : AllocAt(m, a, count * size, TRUE, FALSE))

\* C._calloc(count): the size left out is undefined, which reaches the
\* allocator as 0
CallocOneArg(m, count) == Calloc(m, count, 0)

\* the engine allocates a node of its own on the same heap
EngineAlloc(m, bytes) ==
    IF m.fault THEN m
    ELSE Do(FirstFit(m.live, bytes), LAMBDA a : AllocAt(m, a, bytes, TRUE, TRUE))

\* C._free(a).  A free of 0 does nothing; a free of an address that is no
\* live block is undefined: the runtime aborts, or goes on.
Free(m, a) ==
    IF m.fault THEN m
    ELSE IF a = 0 THEN Emit(m, Ev("free", "", a, 0))
    ELSE IF a \in DOMAIN m.live
    THEN [m EXCEPT !.live = Without(@, {a}),
                   !.i32 = Without(@, Cells(a, Chunk(m.live[a]))),
                   !.f64 = Without(@, Cells(a, Chunk(m.live[a]))),
                   !.trace = Append(@, Ev("free", "", a, 0))]
    ELSE [m EXCEPT !.fault = m.abortOnBadFree,
                   !.trace = Append(@, Ev("free", "", a, 0))]

\* C.setValue(addr, v, 'i32') and one element of C.HEAPU32.set
WriteI32(m, addr, v) ==
    IF m.fault THEN m
    ELSE [m EXCEPT !.i32 = (addr :> v) @@ @,
                   !.f64 = Without(@, {addr - (addr % 8)}),
                   !.trace = Append(@, Ev("write", "", addr, 4))]

\* one element of C.HEAPF64.set
WriteF64(m, addr, v) ==
    IF m.fault THEN m
    ELSE [m EXCEPT !.f64 = (addr :> v) @@ @,
                   !.i32 = Without(@, {addr, addr + 4}),
                   !.trace = Append(@, Ev("write", "", addr, 8))]

HasI32(m, addr) == addr \in DOMAIN m.i32

HasF64(m, addr) ==
    \/ addr \in DOMAIN m.f64
    \/ {addr, addr + 4} \subseteq DOMAIN m.i32 /\ m.i32[addr] = 0 /\ m.i32[addr + 4] = 0

\* C.getValue(addr, 'i32') and C.getValue(addr, 'i8*'); a read is named
\* "junk" when the cell holds no value of the view
GetValueI32(m, addr) ==
    IF m.fault THEN m
    ELSE IF HasI32(m, addr)
    THEN [m EXCEPT !.trace = Append(@, Ev("read", "", addr, 4)), !.ret = m.i32[addr]]
    ELSE [m EXCEPT !.trace = Append(@, Ev("read", "junk", addr, 4)), !.ret = m.junk]

\* C.getValue(addr, 'double')
GetValueF64(m, addr) ==
    IF m.fault THEN m
    ELSE IF HasF64(m, addr)
    THEN [m EXCEPT !.trace = Append(@, Ev("read", "", addr, 8)),
                   !.ret = IF addr \in DOMAIN m.f64 THEN m.f64[addr] ELSE 0]
    ELSE [m EXCEPT !.trace = Append(@, Ev("read", "junk", addr, 8)), !.ret = m.junk]

----------------------------------------------------------------------------
(* The engine (the H3 bindings): a black box.  A call is logged, may fill  *)
(* foreign memory, and leaves a value in the out-of-band slot: the high    *)
(* word of its result when it returns a long, a scratch value otherwise.   *)

\* the words of decoded identifiers as the engine receives them
Words(pair) == <<ToInt32(pair[1]), ToInt32(pair[2])>>

\* a call, passed the identifier words in, that returns a long <<lower, upper>>
EngineLong(m, name, in, long) ==
    IF m.fault THEN m
    ELSE [m EXCEPT !.tempRet0 = long[2],
                   !.trace = Append(@, EvIn("engine64", name, long[1], long[2], in)),
                   !.ret = long[1]]

\* a call, passed the identifier words in, that returns a number (or nothing),
\* having written bytes at addr
EngineInt(m, name, in, value, addr, bytes) ==
    IF m.fault THEN m
    ELSE [m EXCEPT !.tempRet0 = m.scratch,
                   !.trace = Append(@, EvIn("engine", name, addr, bytes, in)),
                   !.ret = value]

\* C.getTempRet0()
GetTempRet0(m) ==
    IF m.fault THEN m
    ELSE [m EXCEPT !.trace = Append(@, Ev("getTempRet0", "", m.tempRet0, 0)),
                   !.ret = m.tempRet0]

\* the engine stores words and doubles without the host's bookkeeping
PokeI32(m, addr, v) ==
    [m EXCEPT !.i32 = (addr :> v) @@ @, !.f64 = Without(@, {addr - (addr % 8)})]

PokeF64(m, addr, v) ==
    [m EXCEPT !.f64 = (addr :> v) @@ @, !.i32 = Without(@, {addr, addr + 4})]

SetRet(m, v) == [m EXCEPT !.ret = v]

----------------------------------------------------------------------------
(* Results of a call *)

NoResult == [kind |-> "none", val |-> <<>>, msg |-> ""]

Return(m, v) ==
    IF m.fault THEN m
    ELSE [m EXCEPT !.result = [kind |-> "return", val |-> v, msg |-> ""],
                   !.trace = Append(@, Ev("return", "", 0, 0))]

ReturnNull(m) ==
    IF m.fault THEN m
    ELSE [m EXCEPT !.result = [kind |-> "null", val |-> <<>>, msg |-> ""],
                   !.trace = Append(@, Ev("return", "", 0, 0))]

Throw(m, msg) ==
    IF m.fault THEN m
    ELSE [m EXCEPT !.result = [kind |-> "throw", val |-> <<>>, msg |-> msg],
                   !.trace = Append(@, Ev("throw", msg, 0, 0))]

\* the call as the caller sees it: a fault of the runtime surfaces as an abort
Outcome(m) ==
    IF m.fault THEN [kind |-> "throw", val |-> <<>>, msg |-> "abort"] ELSE m.result

\* the machine state a call starts in
Start(u) ==
    [i32 |-> mem.i32, f64 |-> mem.f64, live |-> mem.live, tempRet0 |-> tempRet0,
     trace |-> <<>>, ret |-> 0, fault |-> FALSE, result |-> NoResult, enodes |-> {},
     junk |-> u.junk, abortOnBadFree |-> u.abortOnBadFree, scratch |-> u.scratch]

\* the state the call leaves
Commit(name, a, e, m) ==
    /\ mem' = [i32 |-> m.i32, f64 |-> m.f64, live |-> m.live]
    /\ tempRet0' = m.tempRet0
    /\ op' = name
    /\ args' = a
    /\ eng' = e
    /\ trace' = m.trace
    /\ result' = Outcome(m)

----------------------------------------------------------------------------
(* Readers and writers of foreign values (lines 234-353) *)

readLong(m, invocation) ==
    Do(GetTempRet0(m), LAMBDA m1 : SetRet(m1, <<invocation, m1.ret>>))

\* ret is [null, str]: null, or the address string
readH3AddressLowZero(m, invocation) ==
    Do(readLong(m, invocation), LAMBDA m1 :
       SetRet(m1, IF m1.ret[1] # 0 /\ m1.ret[2] # 0
                  THEN [null |-> FALSE, str |-> splitLongToH3Address(m1.ret[1], m1.ret[2])]
                  ELSE [null |-> TRUE, str |-> <<>>]))

readH3Address(m, invocation) ==
    Do(readLong(m, invocation), LAMBDA m1 :
       SetRet(m1, IF m1.ret[2] # 0
                  THEN [null |-> FALSE, str |-> splitLongToH3Address(m1.ret[1], m1.ret[2])]
                  ELSE [null |-> TRUE, str |-> <<>>]))

\* the loop of readArrayOfHexagons, from index i with out read so far
RECURSIVE readArrayLoop(_, _, _, _, _)
readArrayLoop(m, cAddress, maxCount, i, out) ==
    IF ~(i < maxCount * 2) THEN SetRet(m, out)
    ELSE Do(GetValueI32(m, cAddress + SZ_INT * i), LAMBDA m1 :
         Do(GetValueI32(m1, cAddress + SZ_INT * (i + 1)), LAMBDA m2 :
         Do(IF m1.ret # 0 \/ m2.ret # 0
            THEN Append(out, splitLongToH3Address(m1.ret, m2.ret))
            ELSE out, LAMBDA pushed :
            readArrayLoop(m2, cAddress, maxCount, i + 2, pushed))))

RECURSIVE readArrayLoopBothWords(_, _, _, _, _)
readArrayLoopBothWords(m, cAddress, maxCount, i, out) ==
    IF ~(i < maxCount * 2) THEN SetRet(m, out)
    ELSE Do(GetValueI32(m, cAddress + SZ_INT * i), LAMBDA m1 :
         Do(GetValueI32(m1, cAddress + SZ_INT * (i + 1)), LAMBDA m2 :
         Do(IF m1.ret # 0 /\ m2.ret # 0
            THEN Append(out, splitLongToH3Address(m1.ret, m2.ret))
            ELSE out, LAMBDA pushed :
            readArrayLoopBothWords(m2, cAddress, maxCount, i + 2, pushed))))

readArrayOfHexagonsBothWords(m, cAddress, maxCount) ==
    IF m.fault THEN m ELSE readArrayLoopBothWords(m, cAddress, maxCount, 0, <<>>)

readArrayOfHexagons(m, cAddress, maxCount) ==
    IF m.fault THEN m ELSE readArrayLoop(m, cAddress, maxCount, 0, <<>>)

\* the loop of storeArrayOfHexagons; a word is stored as its bit pattern,
\* which the model names by its signed value
RECURSIVE storeArrayLoop(_, _, _, _)
storeArrayLoop(m, cAddress, hexagons, i) ==
    IF ~(i < Len(hexagons)) THEN m
    ELSE Do(h3AddressToSplitLong(hexagons[i + 1]), LAMBDA pair :
         Do(WriteI32(m, cAddress + SZ_INT * (2 * i), ToInt32(pair[1])), LAMBDA m1 :
         Do(WriteI32(m1, cAddress + SZ_INT * (2 * i + 1), ToInt32(pair[2])), LAMBDA m2 :
            storeArrayLoop(m2, cAddress, hexagons, i + 1))))

storeArrayOfHexagons(m, cAddress, hexagons) ==
    IF m.fault THEN m ELSE storeArrayLoop(m, cAddress, hexagons, 0)

readSingleCoord(m, cAddress) ==
    Do(GetValueF64(m, cAddress), LAMBDA m1 : SetRet(m1, radsToDegs(m1.ret)))

readGeoCoord(m, cAddress) ==
    Do(readSingleCoord(m, cAddress), LAMBDA m1 :
    Do(readSingleCoord(m1, cAddress + SZ_DBL), LAMBDA m2 :
       SetRet(m2, <<constrainLat(m1.ret), constrainLng(m2.ret)>>)))

readGeoCoordGeoJson(m, cAddress) ==
    Do(readSingleCoord(m, cAddress + SZ_DBL), LAMBDA m1 :
    Do(readSingleCoord(m1, cAddress), LAMBDA m2 :
       SetRet(m2, <<constrainLng(m1.ret), constrainLat(m2.ret)>>)))

\* const readCoord = geoJsonCoords ? readGeoCoordGeoJson : readGeoCoord
readCoord(m, geoJsonCoords, cAddress) ==
    IF geoJsonCoords THEN readGeoCoordGeoJson(m, cAddress) ELSE readGeoCoord(m, cAddress)

\* the loop of readGeoBoundary, from index i with out read so far
RECURSIVE readBoundaryLoop(_, _, _, _, _, _)
readBoundaryLoop(m, vertsPos, numVerts, geoJsonCoords, i, out) ==
    IF ~(i < numVerts * 2) THEN SetRet(m, out)
    ELSE Do(readCoord(m, geoJsonCoords, vertsPos + SZ_DBL * i), LAMBDA m1 :
         Do(Append(out, m1.ret), LAMBDA pushed :
            readBoundaryLoop(m1, vertsPos, numVerts, geoJsonCoords, i + 2, pushed)))

\* out[0] of a JavaScript array: undefined when the array is empty
FirstOf(out) == IF out = <<>> THEN Undefined ELSE out[1]

readGeoBoundaryNeverClosed(m, geoBoundary, geoJsonCoords, closedLoop) ==
    IF m.fault THEN m
    ELSE Do(GetValueI32(m, geoBoundary), LAMBDA m1 :
            readBoundaryLoop(m1, geoBoundary + SZ_DBL, m1.ret, geoJsonCoords, 0, <<>>))

\* closedLoop is FALSE where the caller leaves the argument out
readGeoBoundary(m, geoBoundary, geoJsonCoords, closedLoop) ==
    IF m.fault THEN m
    ELSE Do(GetValueI32(m, geoBoundary), LAMBDA m1 :
         Do(readBoundaryLoop(m1, geoBoundary + SZ_DBL, m1.ret, geoJsonCoords, 0, <<>>),
            LAMBDA m2 :
            IF closedLoop THEN SetRet(m2, Append(m2.ret, FirstOf(m2.ret))) ELSE m2))

----------------------------------------------------------------------------
(* What the environment supplies: arguments of the callers and answers of  *)
(* the engine, drawn from small sets that hold the cases that matter.      *)

SampleHigh == BASE_16 \div 2    \* high word of a cell index: 0x08...

\* an index string of the engine's width: a first digit 8, then all f
CellId == <<SampleHigh>> \o [i \in 1..(2 * HexDigitsPerWord - 2) |-> 15]

IdArgs == {NotAString, CellId, <<1>>}

\* longs as <<lower, upper>>, each word as the host receives it (signed)
WordPairs == {<<0, 0>>, <<1, 0>>, <<0, SampleHigh>>, <<-1, SampleHigh>>}

ResArgs == {ResNum(0), ResNum(15), ResNum(16), ResNum(-1),
            [type |-> "number", twice |-> 3], [type |-> "string", twice |-> 10]}

UnitArgs == {"m", "km", "m2", "km2", "mi", "undefined"}

LatArgs == {45, 135}
LngArgs == {-90, 270}

\* coordinates the engine writes, as <<lat, lng>> in its radians
DegreeSample == {<<0, 0>>, <<90, 180>>, <<91, 181>>, <<180, 360>>}
CoordSample == {<<degsToRads(d[1]), degsToRads(d[2])>> : d \in DegreeSample}

SeqsUpTo(S, n) == UNION {[1..k -> S] : k \in 0..n}

\* what an engine call that returns no long leaves in the out-of-band slot
ScratchWord == SampleHigh + 1

\* the outcomes of undefined behaviour: what a read of a cell that was never
\* written in that view returns, and whether a free of an address that is no
\* live block aborts the call
Env == [junk : {0, HeapBase + SZ_INT}, abortOnBadFree : BOOLEAN, scratch : {ScratchWord}]

\* for the functions in which no such read or free can occur
QuietEnv == [junk : {0}, abortOnBadFree : {FALSE}, scratch : {ScratchWord}]

\* a call starts when the caller holds no result and the heap holds at most
\* MaxLeaked blocks
CanCall == op = "none" /\ Cardinality(DOMAIN mem.live) <= MaxLeaked

\* the call runs to its end, and the state it leaves is committed
Run(name, a, e, m) == \E done \in {m} : Commit(name, a, e, done)

\* the engine fills a GeoBoundary: the count, then the vertices from byte 8
RECURSIVE PokeVerts(_, _, _, _)
PokeVerts(m, vertsPos, verts, k) ==
    IF k > Len(verts) THEN m
    ELSE Do(PokeF64(m, vertsPos + SZ_GEOCOORD * (k - 1), verts[k][1]), LAMBDA m1 :
         Do(PokeF64(m1, vertsPos + SZ_GEOCOORD * (k - 1) + SZ_DBL, verts[k][2]), LAMBDA m2 :
            PokeVerts(m2, vertsPos, verts, k + 1)))

EngineBoundary(m, name, in, geoBoundary, verts) ==
    IF m.fault THEN m
    ELSE Do(PokeI32(m, geoBoundary, Len(verts)), LAMBDA m1 :
         Do(PokeVerts(m1, geoBoundary + SZ_DBL, verts, 1), LAMBDA m2 :
            EngineInt(m2, name, in, 0, geoBoundary, SZ_DBL + SZ_GEOCOORD * Len(verts))))

\* the engine writes one GeoCoord
EngineCoord(m, name, in, latlng, coord) ==
    IF m.fault THEN m
    ELSE Do(PokeF64(m, latlng, coord[1]), LAMBDA m1 :
         Do(PokeF64(m1, latlng + SZ_DBL, coord[2]), LAMBDA m2 :
            EngineInt(m2, name, in, 0, latlng, SZ_GEOCOORD)))

\* Boolean(n)
Boolean(n) == n # 0 /\ n # NaN

----------------------------------------------------------------------------
(* Public API functions: Core (lines 395-500).  The answers of the engine  *)
(* during the call are the fields of e.  A number is returned as <<n>>.    *)

\* one of the functions that pass an index to the engine and return Boolean
\* of its answer
inspectBoolean(m, name, h3Address, e) ==
    Do(h3AddressToSplitLong(h3Address), LAMBDA pair :
    Do(EngineInt(m, name, Words(pair), e.value, 0, 0), LAMBDA m1 :
       Return(m1, <<Boolean(m1.ret)>>)))

h3IsValid(m, h3Address, e) == inspectBoolean(m, "h3IsValid", h3Address, e)

h3IsPentagon(m, h3Address, e) == inspectBoolean(m, "h3IsPentagon", h3Address, e)

h3IsResClassIII(m, h3Address, e) == inspectBoolean(m, "h3IsResClassIII", h3Address, e)

h3GetBaseCell(m, h3Address, e) ==
    Do(h3AddressToSplitLong(h3Address), LAMBDA pair :
    Do(EngineInt(m, "h3GetBaseCell", Words(pair), e.value, 0, 0), LAMBDA m1 :
       Return(m1, <<m1.ret>>)))

\* h3Address.charAt(1) is the second character, or the empty string
h3GetResolution(m, h3Address) ==
    IF ~IsString(h3Address) THEN Return(m, <<-1>>)
    ELSE Return(m, <<parseInt(charAt(h3Address, 1))>>)

geoToH3LateRead(m, lat, lng, res, e) ==
    Do(Malloc(m, SZ_GEOCOORD), LAMBDA m1 :
    Do(WriteF64(m1, m1.ret, degsToRads(constrainLat(lat))), LAMBDA m2 :
    Do(WriteF64(m2, m1.ret + SZ_DBL, degsToRads(constrainLng(lng))), LAMBDA m3 :
    Do(EngineLong(m3, "geoToH3", <<>>, e.long), LAMBDA m4 :
    Do(EngineInt(m4, "h3IsValid", <<m4.ret, m4.tempRet0>>, 1, 0, 0), LAMBDA m5 :
    Do(readH3Address(m5, m4.ret), LAMBDA m6 :
    Do(Free(m6, m1.ret), LAMBDA m7 :
       IF m6.ret.null THEN ReturnNull(m7) ELSE Return(m7, m6.ret.str))))))))

geoToH3(m, lat, lng, res, e) ==
    Do(Malloc(m, SZ_GEOCOORD), LAMBDA m1 :
    Do(WriteF64(m1, m1.ret, degsToRads(constrainLat(lat))), LAMBDA m2 :
    Do(WriteF64(m2, m1.ret + SZ_DBL, degsToRads(constrainLng(lng))), LAMBDA m3 :
    Do(EngineLong(m3, "geoToH3", <<>>, e.long), LAMBDA m4 :
    Do(readH3Address(m4, m4.ret), LAMBDA m5 :
    Do(Free(m5, m1.ret), LAMBDA m6 :
       IF m5.ret.null THEN ReturnNull(m6) ELSE Return(m6, m5.ret.str)))))))

h3ToGeo(m, h3Address, e) ==
    Do(Malloc(m, SZ_GEOCOORD), LAMBDA m1 :
    Do(h3AddressToSplitLong(h3Address), LAMBDA pair :
    Do(EngineCoord(m1, "h3ToGeo", Words(pair), m1.ret, e.coord), LAMBDA m2 :
    Do(readGeoCoord(m2, m1.ret), LAMBDA m3 :
    Do(Free(m3, m1.ret), LAMBDA m4 :
       Return(m4, m3.ret))))))

h3ToGeoBoundary(m, h3Address, formatAsGeoJson, e) ==
    Do(Malloc(m, SZ_GEOBOUNDARY), LAMBDA m1 :
    Do(h3AddressToSplitLong(h3Address), LAMBDA pair :
    Do(EngineBoundary(m1, "h3ToGeoBoundary", Words(pair), m1.ret, e.verts), LAMBDA m2 :
    Do(readGeoBoundary(m2, m1.ret, formatAsGeoJson, formatAsGeoJson), LAMBDA m3 :
    Do(Free(m3, m1.ret), LAMBDA m4 :
       Return(m4, m3.ret))))))

----------------------------------------------------------------------------
(* Public API functions: Algorithms and edges that return one index or one *)
(* boundary (lines 511-514, 736-782, 822-829)                              *)

\* return readH3Address(H3.<name>(...words))
returnH3Address(m, name, in, e) ==
    Do(EngineLong(m, name, in, e.long), LAMBDA m1 :
    Do(readH3Address(m1, m1.ret), LAMBDA m2 :
       IF m2.ret.null THEN ReturnNull(m2) ELSE Return(m2, m2.ret.str)))

h3ToParent(m, h3Address, res, e) ==
    returnH3Address(m, "h3ToParent", Words(h3AddressToSplitLong(h3Address)), e)

h3IndexesAreNeighbors(m, origin, destination, e) ==
    Do(Words(h3AddressToSplitLong(origin)) \o Words(h3AddressToSplitLong(destination)),
       LAMBDA in :
    Do(EngineInt(m, "h3IndexesAreNeighbors", in, e.value, 0, 0), LAMBDA m1 :
       Return(m1, <<Boolean(m1.ret)>>)))

getH3UnidirectionalEdge(m, origin, destination, e) ==
    returnH3Address(m, "getH3UnidirectionalEdge",
        Words(h3AddressToSplitLong(origin)) \o Words(h3AddressToSplitLong(destination)), e)

getOriginH3IndexFromUnidirectionalEdge(m, edgeAddress, e) ==
    returnH3Address(m, "getOriginH3IndexFromUnidirectionalEdge",
        Words(h3AddressToSplitLong(edgeAddress)), e)

getDestinationH3IndexFromUnidirectionalEdge(m, edgeAddress, e) ==
    returnH3Address(m, "getDestinationH3IndexFromUnidirectionalEdge",
        Words(h3AddressToSplitLong(edgeAddress)), e)

h3UnidirectionalEdgeIsValid(m, edgeAddress, e) ==
    inspectBoolean(m, "h3UnidirectionalEdgeIsValid", edgeAddress, e)

getH3UnidirectionalEdgeBoundary(m, edgeAddress, formatAsGeoJson, e) ==
    Do(Malloc(m, SZ_GEOBOUNDARY), LAMBDA m1 :
    Do(h3AddressToSplitLong(edgeAddress), LAMBDA pair :
    Do(EngineBoundary(m1, "getH3UnidirectionalEdgeBoundary", Words(pair), m1.ret, e.verts),
       LAMBDA m2 :
    Do(readGeoBoundary(m2, m1.ret, formatAsGeoJson, FALSE), LAMBDA m3 :
    Do(Free(m3, m1.ret), LAMBDA m4 :
       Return(m4, m3.ret))))))

----------------------------------------------------------------------------
(* Public informational utilities (lines 831-887) *)

\* return H3.<name>(res)
returnNumber(m, name, e) ==
    Do(EngineInt(m, name, <<>>, e.value, 0, 0), LAMBDA m1 : Return(m1, <<m1.ret>>))

hexAreaAnyUnit(m, res, unit, e) ==
    IF validateResThrows(res) THEN Throw(m, "Invalid resolution")
    ELSE IF unit = UNITS.m2 THEN returnNumber(m, "hexAreaM2", e)
    ELSE returnNumber(m, "hexAreaKm2", e)

hexArea(m, res, unit, e) ==
    IF validateResThrows(res) THEN Throw(m, "Invalid resolution")
    ELSE IF unit = UNITS.m2 THEN returnNumber(m, "hexAreaM2", e)
    ELSE IF unit = UNITS.km2 THEN returnNumber(m, "hexAreaKm2", e)
    ELSE Throw(m, "Unknown unit")

edgeLength(m, res, unit, e) ==
    IF validateResThrows(res) THEN Throw(m, "Invalid resolution")
    ELSE IF unit = UNITS.m THEN returnNumber(m, "edgeLengthM", e)
    ELSE IF unit = UNITS.km THEN returnNumber(m, "edgeLengthKm", e)
    ELSE Throw(m, "Unknown unit")

numHexagons(m, res, e) ==
    IF validateResThrows(res) THEN Throw(m, "Invalid resolution")
    ELSE Do(EngineLong(m, "numHexagons", <<>>, e.long), LAMBDA m1 :
         Do(readLong(m1, m1.ret), LAMBDA m2 :
            IF m2.ret[2] = 0 THEN Return(m2, <<m2.ret[1]>>)
            ELSE Return(m2, <<m2.ret[2] * WordMod + m2.ret[1]>>)))

----------------------------------------------------------------------------
(* Public API functions that return arrays of indexes                      *)
(* (lines 522-599, 673-725, 789-813)                                       *)

\* the engine fills an array of indexes: slot k (from 1) gets slots[k]; a
\* slot given <<0, 0>> is one the engine leaves as it was
RECURSIVE PokeSlots(_, _, _, _)
PokeSlots(m, cAddress, slots, k) ==
    IF k > Len(slots) THEN m
    ELSE IF slots[k] = <<0, 0>> THEN PokeSlots(m, cAddress, slots, k + 1)
    ELSE Do(PokeI32(m, cAddress + SZ_H3INDEX * (k - 1), slots[k][1]), LAMBDA m1 :
         Do(PokeI32(m1, cAddress + SZ_H3INDEX * (k - 1) + SZ_INT, slots[k][2]), LAMBDA m2 :
            PokeSlots(m2, cAddress, slots, k + 1)))

EngineFill(m, name, in, status, cAddress, slots) ==
    IF m.fault THEN m
    ELSE Do(PokeSlots(m, cAddress, slots, 1), LAMBDA m1 :
            EngineInt(m1, name, in, status, cAddress, SZ_H3INDEX * Len(slots)))

RECURSIVE PokeInts(_, _, _, _)
PokeInts(m, cAddress, ints, k) ==
    IF k > Len(ints) THEN m
    ELSE Do(PokeI32(m, cAddress + SZ_INT * (k - 1), ints[k]), LAMBDA m1 :
            PokeInts(m1, cAddress, ints, k + 1))

h3ToChildren(m, h3Address, res, e) ==
    Do(h3AddressToSplitLong(h3Address), LAMBDA pair :
    Do(EngineInt(m, "maxH3ToChildrenSize", Words(pair), e.cap, 0, 0), LAMBDA m1 :
    Do(Calloc(m1, m1.ret, SZ_H3INDEX), LAMBDA m2 :
    Do(EngineFill(m2, "h3ToChildren", Words(pair), 0, m2.ret, e.slots), LAMBDA m3 :
    Do(readArrayOfHexagons(m3, m2.ret, m1.ret), LAMBDA m4 :
    Do(Free(m4, m2.ret), LAMBDA m5 :
       Return(m5, m4.ret)))))))

kRing(m, h3Address, ringSize, e) ==
    Do(h3AddressToSplitLong(h3Address), LAMBDA pair :
    Do(EngineInt(m, "maxKringSize", <<>>, e.cap, 0, 0), LAMBDA m1 :
    Do(Calloc(m1, m1.ret, SZ_H3INDEX), LAMBDA m2 :
    Do(EngineFill(m2, "kRing", Words(pair), 0, m2.ret, e.slots), LAMBDA m3 :
    Do(readArrayOfHexagons(m3, m2.ret, m1.ret), LAMBDA m4 :
    Do(Free(m4, m2.ret), LAMBDA m5 :
       Return(m5, m4.ret)))))))

\* the second loop of kRingDistances, from index i with the rings out so far
RECURSIVE kRingDistancesLoop(_, _, _, _, _, _)
kRingDistancesLoop(m, kRings, distances, maxCount, i, out) ==
    IF ~(i < maxCount * 2) THEN SetRet(m, out)
    ELSE Do(GetValueI32(m, kRings + SZ_INT * i), LAMBDA m1 :
         Do(GetValueI32(m1, kRings + SZ_INT * (i + 1)), LAMBDA m2 :
         Do(GetValueI32(m2, distances + SZ_INT * (i \div 2)), LAMBDA m3 :
         Do(IF m1.ret # 0 \/ m2.ret # 0
            THEN [out EXCEPT ![m3.ret + 1] =
                      Append(@, splitLongToH3Address(m1.ret, m2.ret))]
            ELSE out, LAMBDA pushed :
            kRingDistancesLoop(m3, kRings, distances, maxCount, i + 2, pushed)))))

\* the engine fills kRings and distances
EngineKRingDistances(m, in, kRings, distances, e) ==
    IF m.fault THEN m
    ELSE Do(PokeInts(m, distances, e.distances, 1), LAMBDA m1 :
            EngineFill(m1, "kRingDistances", in, 0, kRings, e.slots))

kRingDistances(m, h3Address, ringSize, e) ==
    Do(h3AddressToSplitLong(h3Address), LAMBDA pair :
    Do(EngineInt(m, "maxKringSize", <<>>, e.cap, 0, 0), LAMBDA m1 :
    Do(Calloc(m1, m1.ret, SZ_H3INDEX), LAMBDA m2 :
    Do(Calloc(m2, m1.ret, SZ_INT), LAMBDA m3 :
    Do(EngineKRingDistances(m3, Words(pair), m2.ret, m3.ret, e), LAMBDA m4 :
    Do(kRingDistancesLoop(m4, m2.ret, m3.ret, m1.ret, 0,
                          [i \in 1..(ringSize + 1) |-> <<>>]), LAMBDA m5 :
    Do(Free(m5, m2.ret), LAMBDA m6 :
    Do(Free(m6, m3.ret), LAMBDA m7 :
       Return(m7, m5.ret)))))))))

hexRingKeepsBuffer(m, h3Address, ringSize, e) ==
    Do(IF ringSize = 0 THEN 1 ELSE 6 * ringSize, LAMBDA maxCount :
    Do(Calloc(m, maxCount, SZ_H3INDEX), LAMBDA m1 :
    Do(EngineFill(m1, "hexRing", Words(h3AddressToSplitLong(h3Address)),
                  e.status, m1.ret, e.slots), LAMBDA m2 :
       IF m2.ret # 0
       THEN Throw(m2, "Failed to get hexRing (encountered a pentagon?)")
       ELSE Do(readArrayOfHexagons(m2, m1.ret, maxCount), LAMBDA m3 :
            Do(Free(m3, m1.ret), LAMBDA m4 :
               Return(m4, m3.ret))))))

hexRing(m, h3Address, ringSize, e) ==
    Do(IF ringSize = 0 THEN 1 ELSE 6 * ringSize, LAMBDA maxCount :
    Do(Calloc(m, maxCount, SZ_H3INDEX), LAMBDA m1 :
    Do(EngineFill(m1, "hexRing", Words(h3AddressToSplitLong(h3Address)),
                  e.status, m1.ret, e.slots), LAMBDA m2 :
       IF m2.ret # 0
       THEN Do(Free(m2, m1.ret), LAMBDA m3 :
               Throw(m3, "Failed to get hexRing (encountered a pentagon?)"))
       ELSE Do(readArrayOfHexagons(m2, m1.ret, maxCount), LAMBDA m3 :
            Do(Free(m3, m1.ret), LAMBDA m4 :
               Return(m4, m3.ret))))))

compact(m, h3Set, e) ==
    IF Len(h3Set) = 0 THEN Return(m, <<>>)
    ELSE
    Do(Calloc(m, Len(h3Set), SZ_H3INDEX), LAMBDA m1 :
    Do(storeArrayOfHexagons(m1, m1.ret, h3Set), LAMBDA m2 :
    Do(Calloc(m2, Len(h3Set), SZ_H3INDEX), LAMBDA m3 :
    Do(EngineFill(m3, "compact", <<>>, e.status, m3.ret, e.slots), LAMBDA m4 :
       IF m4.ret # 0
       THEN Do(Free(m4, m1.ret), LAMBDA m5 :
            Do(Free(m5, m3.ret), LAMBDA m6 :
               Throw(m6, "Failed to compact, malformed input data (duplicate hexagons?)")))
       ELSE Do(readArrayOfHexagons(m4, m3.ret, Len(h3Set)), LAMBDA m5 :
            Do(Free(m5, m1.ret), LAMBDA m6 :
            Do(Free(m6, m3.ret), LAMBDA m7 :
               Return(m7, m5.ret))))))))

uncompact(m, compactedSet, res, e) ==
    IF validateResThrows(res) THEN Throw(m, "Invalid resolution")
    ELSE IF Len(compactedSet) = 0 THEN Return(m, <<>>)
    ELSE
    Do(Calloc(m, Len(compactedSet), SZ_H3INDEX), LAMBDA m1 :
    Do(storeArrayOfHexagons(m1, m1.ret, compactedSet), LAMBDA m2 :
    Do(EngineInt(m2, "maxUncompactSize", <<>>, e.cap, 0, 0), LAMBDA m3 :
    Do(Calloc(m3, m3.ret, SZ_H3INDEX), LAMBDA m4 :
    Do(EngineFill(m4, "uncompact", <<>>, e.status, m4.ret, e.slots), LAMBDA m5 :
       IF m5.ret # 0
       THEN Do(Free(m5, m1.ret), LAMBDA m6 :
            Do(Free(m6, m4.ret), LAMBDA m7 :
               Throw(m7, "Failed to uncompact (bad resolution?)")))
       ELSE Do(readArrayOfHexagons(m5, m4.ret, m3.ret), LAMBDA m6 :
            Do(Free(m6, m1.ret), LAMBDA m7 :
            Do(Free(m7, m4.ret), LAMBDA m8 :
               Return(m8, m6.ret)))))))))

getH3IndexesFromUnidirectionalEdge(m, edgeAddress, e) ==
    Do(h3AddressToSplitLong(edgeAddress), LAMBDA pair :
    Do(Calloc(m, 2, SZ_H3INDEX), LAMBDA m1 :
    Do(EngineFill(m1, "getH3IndexesFromUnidirectionalEdge", Words(pair), 0,
                  m1.ret, e.slots), LAMBDA m2 :
    Do(readArrayOfHexagons(m2, m1.ret, 2), LAMBDA m3 :
    Do(Free(m3, m1.ret), LAMBDA m4 :
       Return(m4, m3.ret))))))

getH3UnidirectionalEdgesFromHexagon(m, h3Address, e) ==
    Do(h3AddressToSplitLong(h3Address), LAMBDA pair :
    Do(Calloc(m, 6, SZ_H3INDEX), LAMBDA m1 :
    Do(EngineFill(m1, "getH3UnidirectionalEdgesFromHexagon", Words(pair), 0,
                  m1.ret, e.slots), LAMBDA m2 :
    Do(readArrayOfHexagons(m2, m1.ret, 6), LAMBDA m3 :
    Do(Free(m3, m1.ret), LAMBDA m4 :
       Return(m4, m3.ret))))))

----------------------------------------------------------------------------
(* Geometry structs (lines 160-232) *)

\* markers in the trace for where a helper starts and ends
Enter(m, name) == IF m.fault THEN m ELSE Emit(m, Ev("enter", name, 0, 0))

Leave(m, name) == IF m.fault THEN m ELSE Emit(m, Ev("leave", name, 0, 0))

\* the loop of polygonArrayToGeofence, from index i (i advances by 2)
RECURSIVE geofenceLoop(_, _, _, _, _)
geofenceLoop(m, polygonArray, geoCoordArray, isGeoJson, i) ==
    IF ~(i < Len(polygonArray) * 2) THEN m
    ELSE LET latIndex == IF isGeoJson THEN 1 ELSE 0
             lngIndex == IF isGeoJson THEN 0 ELSE 1
         IN  Do(polygonArray[(i \div 2) + 1], LAMBDA point :
             Do(WriteF64(m, geoCoordArray + SZ_DBL * i,
                         degsToRads(constrainLat(point[latIndex + 1]))), LAMBDA m1 :
             Do(WriteF64(m1, geoCoordArray + SZ_DBL * (i + 1),
                         degsToRads(constrainLng(point[lngIndex + 1]))), LAMBDA m2 :
                geofenceLoop(m2, polygonArray, geoCoordArray, isGeoJson, i + 2))))

polygonArrayToGeofence(m, polygonArray, geofence, isGeoJson) ==
    Do(Calloc(m, Len(polygonArray), SZ_GEOCOORD), LAMBDA m1 :
    Do(geofenceLoop(m1, polygonArray, m1.ret, isGeoJson, 0), LAMBDA m2 :
    Do(WriteI32(m2, geofence, Len(polygonArray)), LAMBDA m3 :
    Do(WriteI32(m3, geofence + SZ_INT, m1.ret), LAMBDA m4 :
       SetRet(m4, geofence)))))

\* the loop over the holes in coordinatesToGeoPolygon
RECURSIVE holesLoop(_, _, _, _, _)
holesLoop(m, coordinates, holes, isGeoJson, i) ==
    IF ~(i < Len(coordinates) - 1) THEN m
    ELSE Do(polygonArrayToGeofence(m, coordinates[i + 2], holes + SZ_GEOFENCE * i,
                                   isGeoJson), LAMBDA m1 :
            holesLoop(m1, coordinates, holes, isGeoJson, i + 1))

\* if (numHoles > 0) { holes = ...; for ... }: ret is holes, and undefined
\* (stored as 0) when there is no hole
allocateHoles(m, coordinates, isGeoJson) ==
    IF Len(coordinates) - 1 > 0
    THEN Do(Calloc(m, Len(coordinates) - 1, SZ_GEOFENCE), LAMBDA m1 :
         Do(holesLoop(m1, coordinates, m1.ret, isGeoJson, 0), LAMBDA m2 :
            SetRet(m2, m1.ret)))
    ELSE SetRet(m, 0)

coordinatesToGeoPolygon(m, coordinates, isGeoJson) ==
    LET numHoles == Len(coordinates) - 1
        geofenceOffset == 0
        numHolesOffset == geofenceOffset + SZ_GEOFENCE
        holesOffset == numHolesOffset + SZ_INT
    IN  Do(Enter(m, "coordinatesToGeoPolygon"), LAMBDA m0 :
        Do(CallocOneArg(m0, SZ_GEOPOLYGON), LAMBDA m1 :
        Do(polygonArrayToGeofence(m1, coordinates[1], m1.ret + geofenceOffset, isGeoJson),
           LAMBDA m2 :
        Do(allocateHoles(m2, coordinates, isGeoJson), LAMBDA m3 :
        Do(WriteI32(m3, m1.ret + numHolesOffset, numHoles), LAMBDA m4 :
        Do(WriteI32(m4, m1.ret + holesOffset, m3.ret), LAMBDA m5 :
        Do(Leave(m5, "coordinatesToGeoPolygon"), LAMBDA m6 :
           SetRet(m6, m1.ret))))))))

\* the loop over the holes in destroyGeoPolygon
RECURSIVE destroyHolesLoop(_, _, _, _)
destroyHolesLoop(m, geoPolygon, numHoles, i) ==
    IF m.fault \/ ~(i < numHoles) THEN m
    ELSE LET holesOffset == SZ_GEOFENCE + SZ_INT
         IN  Do(GetValueI32(m, geoPolygon + holesOffset + SZ_GEOFENCE * i), LAMBDA m1 :
             Do(Free(m1, m1.ret), LAMBDA m2 :
                destroyHolesLoop(m2, geoPolygon, numHoles, i + 1)))

destroyGeoPolygon(m, geoPolygon) ==
    LET geofenceOffset == 0
        numHolesOffset == geofenceOffset + SZ_GEOFENCE
    IN  Do(Enter(m, "destroyGeoPolygon"), LAMBDA m0 :
        Do(GetValueI32(m0, geoPolygon + geofenceOffset), LAMBDA m1 :
        Do(Free(m1, m1.ret), LAMBDA m2 :
        Do(GetValueI32(m2, geoPolygon + numHolesOffset), LAMBDA m3 :
        Do(destroyHolesLoop(m3, geoPolygon, m3.ret, 0), LAMBDA m4 :
        Do(Free(m4, geoPolygon), LAMBDA m5 :
           Leave(m5, "destroyGeoPolygon")))))))

----------------------------------------------------------------------------
(* polyfill (lines 613-632).  coordinates is [single, loops]: single when  *)
(* the caller passes one bare loop, which is then loops[1].                *)

\* the guard without its second test
PolyfillIsEmptyListOnly(coordinates) ==
    IF coordinates.single THEN Len(coordinates.loops[1]) = 0
    ELSE Len(coordinates.loops) = 0

PolyfillIsEmpty(coordinates) ==
    IF coordinates.single THEN Len(coordinates.loops[1]) = 0
    ELSE Len(coordinates.loops) = 0 \/ Len(coordinates.loops[1]) = 0

polyfill(m, coordinates, res, isGeoJson, e) ==
    IF validateResThrows(res) THEN Throw(m, "Invalid resolution")
    ELSE IF PolyfillIsEmpty(coordinates) THEN Return(m, <<>>)
    ELSE
    Do(coordinatesToGeoPolygon(m, coordinates.loops, isGeoJson), LAMBDA m1 :
    Do(EngineInt(m1, "maxPolyfillSize", <<>>, e.cap, 0, 0), LAMBDA m2 :
    Do(Calloc(m2, m2.ret, SZ_H3INDEX), LAMBDA m3 :
    Do(EngineFill(m3, "polyfill", <<>>, 0, m3.ret, e.slots), LAMBDA m4 :
    Do(readArrayOfHexagons(m4, m3.ret, m2.ret), LAMBDA m5 :
    Do(Free(m5, m3.ret), LAMBDA m6 :
    Do(destroyGeoPolygon(m6, m1.ret), LAMBDA m7 :
       Return(m7, m5.ret))))))))

----------------------------------------------------------------------------
(* The engine's linked output: polygon and loop nodes hold first (byte 0), *)
(* last (byte SZ_PTR) and next (byte 2 * SZ_PTR); a coordinate node holds  *)
(* the two doubles, then next (byte 2 * SZ_DBL).  The host never reads     *)
(* last, which the model leaves 0.                                         *)

\* each returns, in ret, the address of the first node built (0 for none)
RECURSIVE EngineCoords(_, _, _)
EngineCoords(m, coords, k) ==
    IF k > Len(coords) THEN SetRet(m, 0)
    ELSE Do(EngineCoords(m, coords, k + 1), LAMBDA rest :
         Do(EngineAlloc(rest, SZ_GEOCOORD + SZ_DBL), LAMBDA m1 :
         Do(PokeF64(m1, m1.ret, coords[k][1]), LAMBDA m2 :
         Do(PokeF64(m2, m1.ret + SZ_DBL, coords[k][2]), LAMBDA m3 :
         Do(PokeI32(m3, m1.ret + SZ_DBL * 2, rest.ret), LAMBDA m4 :
            SetRet(m4, m1.ret))))))

\* a node of first, last and next
EngineNode(m, first, next) ==
    Do(EngineAlloc(m, 3 * SZ_PTR), LAMBDA m1 :
    Do(PokeI32(m1, m1.ret, first), LAMBDA m2 :
    Do(PokeI32(m2, m1.ret + SZ_PTR * 2, next), LAMBDA m3 :
       SetRet(m3, m1.ret))))

RECURSIVE EngineLoops(_, _, _)
EngineLoops(m, loops, k) ==
    IF k > Len(loops) THEN SetRet(m, 0)
    ELSE Do(EngineLoops(m, loops, k + 1), LAMBDA rest :
         Do(EngineCoords(rest, loops[k], 1), LAMBDA m1 :
            EngineNode(m1, m1.ret, rest.ret)))

RECURSIVE EnginePolygons(_, _, _)
EnginePolygons(m, polys, k) ==
    IF k > Len(polys) THEN SetRet(m, 0)
    ELSE Do(EnginePolygons(m, polys, k + 1), LAMBDA rest :
         Do(EngineLoops(rest, polys[k], 1), LAMBDA m1 :
            EngineNode(m1, m1.ret, rest.ret)))

\* H3.h3SetToLinkedGeo(set, count, polygon): polys[1] is written into the
\* caller's root node, the rest into nodes of the engine
EngineLinkedGeo(m, polygon, polys) ==
    IF m.fault THEN m
    ELSE Do(EnginePolygons(m, polys, 2), LAMBDA m1 :
         Do(EngineLoops(m1, polys[1], 1), LAMBDA m2 :
         Do(PokeI32(m2, polygon, m2.ret), LAMBDA m3 :
         Do(PokeI32(m3, polygon + SZ_PTR, 0), LAMBDA m4 :
         Do(PokeI32(m4, polygon + SZ_PTR * 2, m1.ret), LAMBDA m5 :
            EngineInt(m5, "h3SetToLinkedGeo", <<>>, 0, polygon, SZ_LINKED_GEOPOLYGON))))))

\* H3.destroyLinkedPolygon(polygon): the engine frees the nodes it allocated
EngineDestroyLinked(m, polygon) ==
    IF m.fault THEN m
    ELSE Do(UNION {Cells(a, Chunk(m.live[a])) : a \in m.enodes}, LAMBDA gone :
         Do([m EXCEPT !.live = Without(@, m.enodes),
                      !.i32 = Without(@, gone),
                      !.f64 = Without(@, gone),
                      !.enodes = {}], LAMBDA m1 :
            EngineInt(m1, "destroyLinkedPolygon", <<>>, 0, polygon, 0)))

----------------------------------------------------------------------------
(* readMultiPolygon and h3SetToMultiPolygon (lines 361-393, 643-664) *)

\* while (coord)
RECURSIVE readCoordChain(_, _, _, _)
readCoordChain(m, coord, formatAsGeoJson, coords) ==
    IF coord = 0 THEN SetRet(m, coords)
    ELSE Do(readCoord(m, formatAsGeoJson, coord), LAMBDA m1 :
         Do(GetValueI32(m1, coord + SZ_DBL * 2), LAMBDA m2 :
         Do(Append(coords, m1.ret), LAMBDA pushed :
            readCoordChain(m2, m2.ret, formatAsGeoJson, pushed))))

\* while (loop)
RECURSIVE readLoopChain(_, _, _, _)
readLoopChain(m, loop, formatAsGeoJson, loops) ==
    IF loop = 0 THEN SetRet(m, loops)
    ELSE Do(GetValueI32(m, loop), LAMBDA m1 :
         Do(readCoordChain(m1, m1.ret, formatAsGeoJson, <<>>), LAMBDA m2 :
         Do(IF formatAsGeoJson THEN Append(m2.ret, FirstOf(m2.ret)) ELSE m2.ret,
            LAMBDA coords :
         Do(GetValueI32(m2, loop + SZ_PTR * 2), LAMBDA m3 :
            readLoopChain(m3, m3.ret, formatAsGeoJson, Append(loops, coords))))))

\* while (polygon)
RECURSIVE readPolygonChain(_, _, _, _)
readPolygonChain(m, polygon, formatAsGeoJson, output) ==
    IF polygon = 0 THEN SetRet(m, output)
    ELSE Do(GetValueI32(m, polygon), LAMBDA m1 :
         Do(readLoopChain(m1, m1.ret, formatAsGeoJson, <<>>), LAMBDA m2 :
         Do(GetValueI32(m2, polygon + SZ_PTR * 2), LAMBDA m3 :
            readPolygonChain(m3, m3.ret, formatAsGeoJson, Append(output, m2.ret)))))

readMultiPolygon(m, polygon, formatAsGeoJson) ==
    IF m.fault THEN m
    ELSE Do(Enter(m, "readMultiPolygon"), LAMBDA m0 :
         Do(readPolygonChain(m0, polygon, formatAsGeoJson, <<>>), LAMBDA m1 :
         Do(Leave(m1, "readMultiPolygon"), LAMBDA m2 :
            SetRet(m2, m1.ret))))

\* the engine's structure destroyed before the walker reads it
h3SetToMultiPolygonDestroysFirst(m, h3Addresses, formatAsGeoJson, e) ==
    IF Len(h3Addresses) = 0 THEN Return(m, <<>>)
    ELSE
    Do(Calloc(m, Len(h3Addresses), SZ_H3INDEX), LAMBDA m1 :
    Do(storeArrayOfHexagons(m1, m1.ret, h3Addresses), LAMBDA m2 :
    Do(CallocOneArg(m2, SZ_LINKED_GEOPOLYGON), LAMBDA m3 :
    Do(EngineLinkedGeo(m3, m3.ret, e.polys), LAMBDA m4 :
    Do(EngineDestroyLinked(m4, m3.ret), LAMBDA m5 :
    Do(readMultiPolygon(m5, m3.ret, formatAsGeoJson), LAMBDA m6 :
    Do(Free(m6, m3.ret), LAMBDA m7 :
    Do(Free(m7, m1.ret), LAMBDA m8 :
       Return(m8, m6.ret)))))))))

h3SetToMultiPolygon(m, h3Addresses, formatAsGeoJson, e) ==
    IF Len(h3Addresses) = 0 THEN Return(m, <<>>)
    ELSE
    Do(Calloc(m, Len(h3Addresses), SZ_H3INDEX), LAMBDA m1 :
    Do(storeArrayOfHexagons(m1, m1.ret, h3Addresses), LAMBDA m2 :
    Do(CallocOneArg(m2, SZ_LINKED_GEOPOLYGON), LAMBDA m3 :
    Do(EngineLinkedGeo(m3, m3.ret, e.polys), LAMBDA m4 :
    Do(readMultiPolygon(m4, m3.ret, formatAsGeoJson), LAMBDA m5 :
    Do(EngineDestroyLinked(m5, m3.ret), LAMBDA m6 :
    Do(Free(m6, m3.ret), LAMBDA m7 :
    Do(Free(m7, m1.ret), LAMBDA m8 :
       Return(m8, m5.ret)))))))))

----------------------------------------------------------------------------
(* More of what the environment supplies *)

DigitSample == {0, 7, 8, 15}

\* strings of hexadecimal digits as long as one index: 2 words, or one digit less
CodecStrings ==
    [1..(2 * HexDigitsPerWord - 1) -> DigitSample]
        \cup [1..(2 * HexDigitsPerWord) -> DigitSample]

IdSets == {<<>>, <<CellId>>, <<NotAString, CellId>>}

\* strings for h3GetResolution: empty, one character, a second character that
\* is a digit, and one that is none
ResolutionStrings == {<<>>, <<SampleHigh, BASE_16>>, <<SampleHigh, 10, 15>>}

\* a slot of an output array: left empty by the engine, or filled
FilledOrEmpty == {<<0, 0>>, <<-1, SampleHigh>>}

PointArg == <<45, 270>>
LoopArgs == {[k \in 1..n |-> PointArg] : n \in 0..MaxVerts}
HoleArgs == {<<>>, <<PointArg>>}
PolyArgs ==
    {[single |-> TRUE, loops |-> <<l>>] : l \in LoopArgs}
        \cup {[single |-> FALSE, loops |-> <<>>]}
        \cup {[single |-> FALSE, loops |-> <<l>> \o hs] :
                  l \in LoopArgs, hs \in SeqsUpTo(HoleArgs, MaxHoles)}

\* linked output of the engine: one or two polygons of up to two loops
LinkedLoops == {<<c>> : c \in CoordSample}
                   \cup {[k \in 1..MaxVerts |-> <<degsToRads(91), degsToRads(181)>>]}
LinkedOutputs == {<<p>> : p \in {<<>>} \cup {<<l>> : l \in LinkedLoops}}
                     \cup {<<p, q>> : p \in {<<l>> : l \in LinkedLoops},
                                      q \in {<<l, l>> : l \in LinkedLoops}}

----------------------------------------------------------------------------
(* The state machine *)

EmptyHeap == [i32 |-> <<>>, f64 |-> <<>>, live |-> <<>>]

Init ==
    /\ mem = EmptyHeap
    /\ tempRet0 = 0
    /\ op = "none"
    /\ args = <<>>
    /\ eng = <<>>
    /\ trace = <<>>
    /\ result = NoResult

H3IsValidCall ==
    \E u \in QuietEnv, h3Address \in IdArgs, value \in 0..1 :
        /\ CanCall
        /\ Run("h3IsValid", [h3Address |-> h3Address], [value |-> value],
               h3IsValid(Start(u), h3Address, [value |-> value]))

H3IsPentagonCall ==
    \E u \in QuietEnv, h3Address \in IdArgs, value \in 0..1 :
        /\ CanCall
        /\ Run("h3IsPentagon", [h3Address |-> h3Address], [value |-> value],
               h3IsPentagon(Start(u), h3Address, [value |-> value]))

H3IsResClassIIICall ==
    \E u \in QuietEnv, h3Address \in IdArgs, value \in 0..1 :
        /\ CanCall
        /\ Run("h3IsResClassIII", [h3Address |-> h3Address], [value |-> value],
               h3IsResClassIII(Start(u), h3Address, [value |-> value]))

H3GetBaseCellCall ==
    \E u \in QuietEnv, h3Address \in IdArgs, value \in {0, 121} :
        /\ CanCall
        /\ Run("h3GetBaseCell", [h3Address |-> h3Address], [value |-> value],
               h3GetBaseCell(Start(u), h3Address, [value |-> value]))

H3GetResolutionCall ==
    \E u \in QuietEnv, h3Address \in IdArgs \cup ResolutionStrings :
        /\ CanCall
        /\ Run("h3GetResolution", [h3Address |-> h3Address], <<>>,
               h3GetResolution(Start(u), h3Address))

GeoToH3Call ==
    \E u \in QuietEnv, lat \in LatArgs, lng \in LngArgs, res \in ResArgs, long \in WordPairs :
        /\ CanCall
        /\ Run("geoToH3", [lat |-> lat, lng |-> lng, res |-> res], [long |-> long],
               geoToH3(Start(u), lat, lng, res, [long |-> long]))

H3ToGeoCall ==
    \E u \in QuietEnv, h3Address \in IdArgs, coord \in CoordSample :
        /\ CanCall
        /\ Run("h3ToGeo", [h3Address |-> h3Address], [coord |-> coord],
               h3ToGeo(Start(u), h3Address, [coord |-> coord]))

H3ToGeoBoundaryCall ==
    \E u \in QuietEnv, h3Address \in IdArgs, formatAsGeoJson \in BOOLEAN,
       verts \in SeqsUpTo(CoordSample, MaxVerts) :
        /\ CanCall
        /\ Run("h3ToGeoBoundary",
               [h3Address |-> h3Address, formatAsGeoJson |-> formatAsGeoJson],
               [verts |-> verts],
               h3ToGeoBoundary(Start(u), h3Address, formatAsGeoJson, [verts |-> verts]))

H3ToParentCall ==
    \E u \in QuietEnv, h3Address \in IdArgs, res \in ResArgs, long \in WordPairs :
        /\ CanCall
        /\ Run("h3ToParent", [h3Address |-> h3Address, res |-> res], [long |-> long],
               h3ToParent(Start(u), h3Address, res, [long |-> long]))

H3ToChildrenCall ==
    \E u \in QuietEnv, h3Address \in IdArgs, res \in ResArgs, cap \in 0..MaxCount :
        \E slots \in [1..cap -> FilledOrEmpty] :
            /\ CanCall
            /\ Run("h3ToChildren", [h3Address |-> h3Address, res |-> res],
                   [cap |-> cap, slots |-> slots],
                   h3ToChildren(Start(u), h3Address, res, [cap |-> cap, slots |-> slots]))

KRingCall ==
    \E u \in QuietEnv, h3Address \in IdArgs, ringSize \in 0..1, cap \in 0..MaxCount :
        \E slots \in [1..cap -> WordPairs] :
            /\ CanCall
            /\ Run("kRing", [h3Address |-> h3Address, ringSize |-> ringSize],
                   [cap |-> cap, slots |-> slots],
                   kRing(Start(u), h3Address, ringSize, [cap |-> cap, slots |-> slots]))

\* the engine gives every index a distance from 0 to ringSize
KRingDistancesCall ==
    \E u \in QuietEnv, h3Address \in IdArgs, ringSize \in 0..1, cap \in 0..MaxCount :
        \E slots \in [1..cap -> FilledOrEmpty], distances \in [1..cap -> 0..ringSize] :
            /\ CanCall
            /\ Run("kRingDistances", [h3Address |-> h3Address, ringSize |-> ringSize],
                   [cap |-> cap, slots |-> slots, distances |-> distances],
                   kRingDistances(Start(u), h3Address, ringSize,
                       [cap |-> cap, slots |-> slots, distances |-> distances]))

HexRingCall ==
    \E u \in QuietEnv, h3Address \in IdArgs, ringSize \in 0..1, status \in 0..1 :
        \E slots \in [1..(IF ringSize = 0 THEN 1 ELSE 6 * ringSize) -> FilledOrEmpty] :
            /\ CanCall
            /\ Run("hexRing", [h3Address |-> h3Address, ringSize |-> ringSize],
                   [status |-> status, slots |-> slots],
                   hexRing(Start(u), h3Address, ringSize,
                       [status |-> status, slots |-> slots]))

PolyfillCall ==
    \E u \in Env, coordinates \in PolyArgs, res \in {ResNum(0), ResNum(16)},
       isGeoJson \in BOOLEAN, cap \in 0..1 :
        \E slots \in [1..cap -> FilledOrEmpty] :
            /\ CanCall
            /\ Run("polyfill",
                   [coordinates |-> coordinates, res |-> res, isGeoJson |-> isGeoJson],
                   [cap |-> cap, slots |-> slots, junk |-> u.junk,
                    abortOnBadFree |-> u.abortOnBadFree],
                   polyfill(Start(u), coordinates, res, isGeoJson,
                       [cap |-> cap, slots |-> slots]))

H3SetToMultiPolygonCall ==
    \E u \in QuietEnv, h3Addresses \in IdSets, formatAsGeoJson \in BOOLEAN,
       polys \in LinkedOutputs :
        /\ CanCall
        /\ Run("h3SetToMultiPolygon",
               [h3Addresses |-> h3Addresses, formatAsGeoJson |-> formatAsGeoJson],
               [polys |-> polys],
               h3SetToMultiPolygon(Start(u), h3Addresses, formatAsGeoJson,
                   [polys |-> polys]))

CompactCall ==
    \E u \in QuietEnv, h3Set \in IdSets, status \in 0..1 :
        \E slots \in [1..Len(h3Set) -> WordPairs] :
            /\ CanCall
            /\ Run("compact", [h3Set |-> h3Set], [status |-> status, slots |-> slots],
                   compact(Start(u), h3Set, [status |-> status, slots |-> slots]))

UncompactCall ==
    \E u \in QuietEnv, compactedSet \in IdSets, res \in {ResNum(0), ResNum(16)}, cap \in 0..MaxCount,
       status \in 0..1 :
        \E slots \in [1..cap -> FilledOrEmpty] :
            /\ CanCall
            /\ Run("uncompact", [compactedSet |-> compactedSet, res |-> res],
                   [cap |-> cap, status |-> status, slots |-> slots],
                   uncompact(Start(u), compactedSet, res,
                       [cap |-> cap, status |-> status, slots |-> slots]))

H3IndexesAreNeighborsCall ==
    \E u \in QuietEnv, origin \in IdArgs, destination \in IdArgs, value \in 0..1 :
        /\ CanCall
        /\ Run("h3IndexesAreNeighbors", [origin |-> origin, destination |-> destination],
               [value |-> value],
               h3IndexesAreNeighbors(Start(u), origin, destination, [value |-> value]))

GetH3UnidirectionalEdgeCall ==
    \E u \in QuietEnv, origin \in IdArgs, destination \in IdArgs, long \in WordPairs :
        /\ CanCall
        /\ Run("getH3UnidirectionalEdge", [origin |-> origin, destination |-> destination],
               [long |-> long],
               getH3UnidirectionalEdge(Start(u), origin, destination, [long |-> long]))

GetOriginH3IndexFromUnidirectionalEdgeCall ==
    \E u \in QuietEnv, edgeAddress \in IdArgs, long \in WordPairs :
        /\ CanCall
        /\ Run("getOriginH3IndexFromUnidirectionalEdge", [edgeAddress |-> edgeAddress],
               [long |-> long],
               getOriginH3IndexFromUnidirectionalEdge(Start(u), edgeAddress,
                   [long |-> long]))

GetDestinationH3IndexFromUnidirectionalEdgeCall ==
    \E u \in QuietEnv, edgeAddress \in IdArgs, long \in WordPairs :
        /\ CanCall
        /\ Run("getDestinationH3IndexFromUnidirectionalEdge", [edgeAddress |-> edgeAddress],
               [long |-> long],
               getDestinationH3IndexFromUnidirectionalEdge(Start(u), edgeAddress,
                   [long |-> long]))

H3UnidirectionalEdgeIsValidCall ==
    \E u \in QuietEnv, edgeAddress \in IdArgs, value \in 0..1 :
        /\ CanCall
        /\ Run("h3UnidirectionalEdgeIsValid", [edgeAddress |-> edgeAddress],
               [value |-> value],
               h3UnidirectionalEdgeIsValid(Start(u), edgeAddress, [value |-> value]))

GetH3IndexesFromUnidirectionalEdgeCall ==
    \E u \in QuietEnv, edgeAddress \in IdArgs, slots \in [1..2 -> WordPairs] :
        /\ CanCall
        /\ Run("getH3IndexesFromUnidirectionalEdge", [edgeAddress |-> edgeAddress],
               [slots |-> slots],
               getH3IndexesFromUnidirectionalEdge(Start(u), edgeAddress, [slots |-> slots]))

GetH3UnidirectionalEdgesFromHexagonCall ==
    \E u \in QuietEnv, h3Address \in IdArgs, slots \in [1..6 -> FilledOrEmpty] :
        /\ CanCall
        /\ Run("getH3UnidirectionalEdgesFromHexagon", [h3Address |-> h3Address],
               [slots |-> slots],
               getH3UnidirectionalEdgesFromHexagon(Start(u), h3Address, [slots |-> slots]))

GetH3UnidirectionalEdgeBoundaryCall ==
    \E u \in QuietEnv, edgeAddress \in IdArgs, formatAsGeoJson \in BOOLEAN,
       verts \in SeqsUpTo(CoordSample, MaxVerts) :
        /\ CanCall
        /\ Run("getH3UnidirectionalEdgeBoundary",
               [edgeAddress |-> edgeAddress, formatAsGeoJson |-> formatAsGeoJson],
               [verts |-> verts],
               getH3UnidirectionalEdgeBoundary(Start(u), edgeAddress, formatAsGeoJson,
                   [verts |-> verts]))

HexAreaCall ==
    \E u \in QuietEnv, res \in ResArgs, unit \in UnitArgs, value \in {3, 7} :
        /\ CanCall
        /\ Run("hexArea", [res |-> res, unit |-> unit], [value |-> value],
               hexArea(Start(u), res, unit, [value |-> value]))

EdgeLengthCall ==
    \E u \in QuietEnv, res \in ResArgs, unit \in UnitArgs, value \in {3, 7} :
        /\ CanCall
        /\ Run("edgeLength", [res |-> res, unit |-> unit], [value |-> value],
               edgeLength(Start(u), res, unit, [value |-> value]))

NumHexagonsCall ==
    \E u \in QuietEnv, res \in ResArgs, long \in WordPairs :
        /\ CanCall
        /\ Run("numHexagons", [res |-> res], [long |-> long],
               numHexagons(Start(u), res, [long |-> long]))

\* the caller takes the result; the heap and the engine's slot stay as they are
TakeResult ==
    /\ op # "none"
    /\ op' = "none"
    /\ args' = <<>>
    /\ eng' = <<>>
    /\ trace' = <<>>
    /\ result' = NoResult
    /\ UNCHANGED <<mem, tempRet0>>

Next ==
    \/ TakeResult
    \/ H3IsValidCall
    \/ H3IsPentagonCall
    \/ H3IsResClassIIICall
    \/ H3GetBaseCellCall
    \/ H3GetResolutionCall
    \/ GeoToH3Call
    \/ H3ToGeoCall
    \/ H3ToGeoBoundaryCall
    \/ H3ToParentCall
    \/ H3ToChildrenCall
    \/ KRingCall
    \/ KRingDistancesCall
    \/ HexRingCall
    \/ PolyfillCall
    \/ H3SetToMultiPolygonCall
    \/ CompactCall
    \/ UncompactCall
    \/ H3IndexesAreNeighborsCall
    \/ GetH3UnidirectionalEdgeCall
    \/ GetOriginH3IndexFromUnidirectionalEdgeCall
    \/ GetDestinationH3IndexFromUnidirectionalEdgeCall
    \/ H3UnidirectionalEdgeIsValidCall
    \/ GetH3IndexesFromUnidirectionalEdgeCall
    \/ GetH3UnidirectionalEdgesFromHexagonCall
    \/ GetH3UnidirectionalEdgeBoundaryCall
    \/ HexAreaCall
    \/ EdgeLengthCall
    \/ NumHexagonsCall

Spec == Init /\ [][Next]_vars

----------------------------------------------------------------------------
(* The identifier codec, a pair of pure functions: the string is drawn at  *)
(* the start and the one step applies h3AddressToSplitLong and then        *)
(* splitLongToH3Address to what it returned.                               *)

CodecInit ==
    /\ mem = EmptyHeap
    /\ tempRet0 = 0
    /\ op = "none"
    /\ args \in {[h3Address |-> str] : str \in CodecStrings}
    /\ eng = <<>>
    /\ trace = <<>>
    /\ result = NoResult

CodecRoundTrip ==
    /\ op = "none"
    /\ \E pair \in {h3AddressToSplitLong(args.h3Address)} :
           /\ op' = "roundTrip"
           /\ eng' = [pair |-> pair]
           /\ result' = [kind |-> "return",
                         val |-> splitLongToH3Address(pair[1], pair[2]),
                         msg |-> ""]
    /\ UNCHANGED <<mem, tempRet0, args, trace>>

CodecNext == CodecRoundTrip

CodecSpec == CodecInit /\ [][CodecNext]_vars

----------------------------------------------------------------------------
(* The rendering of words, pure functions as well: the pair of words, as   *)
(* signed as the host reads them, is drawn at the start and the one step   *)
(* applies hexFrom32Bit to each word and splitLongToH3Address to the pair. *)

\* every value of a word read as a signed integer
SignedWords == (0 - HalfMod)..(HalfMod - 1)

UpperWordSample == {0 - HalfMod, -1, 0, 1, SampleHigh, HalfMod - 1}

RenderInit ==
    /\ mem = EmptyHeap
    /\ tempRet0 = 0
    /\ op = "none"
    /\ args \in [lower : SignedWords, upper : UpperWordSample]
    /\ eng = <<>>
    /\ trace = <<>>
    /\ result = NoResult

RenderWords ==
    /\ op = "none"
    /\ op' = "splitLongToH3Address"
    /\ eng' = [lower |-> hexFrom32Bit(args.lower), upper |-> hexFrom32Bit(args.upper)]
    /\ result' = [kind |-> "return",
                  val |-> splitLongToH3Address(args.lower, args.upper),
                  msg |-> ""]
    /\ UNCHANGED <<mem, tempRet0, args, trace>>

RenderNext == RenderWords

RenderSpec == RenderInit /\ [][RenderNext]_vars

----------------------------------------------------------------------------
(* Properties.  What a call did is read off the state it leaves: op, args, *)
(* eng (the engine's answers), trace (the events, in order) and result.    *)

EventsOf(kind) == {i \in DOMAIN trace : trace[i].ev = kind}

\* the engine calls of the call, longs and others
EngineCalls == EventsOf("engine") \cup EventsOf("engine64")

\* the call reached the engine function that bears its name
Reached == \E i \in EngineCalls : trace[i].name = op

\* the frees of the block allocated at event i: those of its address, up to
\* the next allocation at that address
FreesOf(i) ==
    {j \in EventsOf("free") :
        /\ j > i
        /\ trace[j].a = trace[i].a
        /\ \A k \in EventsOf("malloc") : (i < k /\ k < j) => trace[k].a # trace[i].a}

\* every block the call allocated was freed exactly once, and none is live
AllocationsMatched ==
    \A i \in EventsOf("malloc") :
        /\ Cardinality(FreesOf(i)) = 1
        /\ trace[i].a \notin DOMAIN mem.live

MemoryOps ==
    {"geoToH3", "h3ToGeo", "h3ToGeoBoundary", "h3ToChildren", "kRing", "kRingDistances",
     "hexRing", "polyfill", "h3SetToMultiPolygon", "compact", "uncompact",
     "getH3IndexesFromUnidirectionalEdge", "getH3UnidirectionalEdgesFromHexagon",
     "getH3UnidirectionalEdgeBoundary"}

\* C1: when a call of one of the operations that allocate foreign memory has
\* returned or thrown, every block it obtained from malloc or calloc has been
\* passed to free exactly once, and none of them is still allocated.
C1_EveryAllocationFreed ==
    (op \in MemoryOps /\ result.kind # "none") => AllocationsMatched

\* C1, where it fails: polyfill has returned its array, and a block it
\* allocated is still live
C1_PolyfillLeaks ==
    /\ op = "polyfill"
    /\ result.kind = "return"
    /\ \E i \in EventsOf("malloc") : trace[i].a \in DOMAIN mem.live

\* the part of C1 that the code keeps: the operations other than polyfill
AllocationsMatchedOutsidePolyfill ==
    (op \in MemoryOps \ {"polyfill"} /\ result.kind # "none") => AllocationsMatched

FailureMessage ==
    [hexRing |-> "Failed to get hexRing (encountered a pentagon?)",
     compact |-> "Failed to compact, malformed input data (duplicate hexagons?)",
     uncompact |-> "Failed to uncompact (bad resolution?)"]

\* C2: when the engine's hexRing, compact or uncompact answers a non-zero
\* status, the operation throws the error that names it, every block allocated
\* in the call has been freed exactly once before the throw, and the output
\* buffer is not read and nothing is returned.
C2_EngineFailureFreesThenThrows ==
    (op \in DOMAIN FailureMessage /\ Reached /\ eng.status # 0) =>
        /\ result.kind = "throw"
        /\ result.msg = FailureMessage[op]
        /\ result.val = <<>>
        /\ AllocationsMatched
        /\ \A i \in EventsOf("throw") : \A j \in EventsOf("free") : j < i
        /\ EventsOf("read") = {}
        /\ EventsOf("malloc") # {}

\* C2's case: the engine's hexRing failed, and the call threw with no block live
C2_Witness ==
    /\ op = "hexRing"
    /\ Reached
    /\ eng.status # 0
    /\ result.kind = "throw"
    /\ Cardinality(EventsOf("free")) = 1
    /\ mem.live = <<>>

\* the events between the markers of a helper, the markers excluded; up to the
\* end of the trace when the helper did not end
Within(name) ==
    {i \in DOMAIN trace :
        /\ \E j \in EventsOf("enter") : trace[j].name = name /\ j < i
        /\ \A j \in EventsOf("leave") : trace[j].name = name => i < j}

BuildAllocations == EventsOf("malloc") \cap Within("coordinatesToGeoPolygon")

DestroyFrees == EventsOf("free") \cap Within("destroyGeoPolygon")

DestroyCalled == \E j \in EventsOf("enter") : trace[j].name = "destroyGeoPolygon"

\* C3: destroyGeoPolygon, applied to what coordinatesToGeoPolygon returned,
\* frees exactly the blocks that coordinatesToGeoPolygon allocated (the header,
\* the outer loop's coordinate array, the holes array, each hole's coordinate
\* array), each of them once, and frees nothing else.
C3_DestroyFreesWhatBuildAllocated ==
    (op = "polyfill" /\ DestroyCalled) =>
        /\ {trace[j].a : j \in DestroyFrees} = {trace[i].a : i \in BuildAllocations}
        /\ Cardinality(DestroyFrees) = Cardinality(BuildAllocations)

\* C3, where it fails: destroyGeoPolygon ran to its end and a coordinate array
\* that coordinatesToGeoPolygon allocated was never passed to free
C3_CoordinateArrayNotFreed ==
    /\ op = "polyfill"
    /\ \E j \in EventsOf("leave") : trace[j].name = "destroyGeoPolygon"
    /\ \E i \in BuildAllocations :
           /\ trace[i].b = Len(args.coordinates.loops[1]) * SZ_GEOCOORD
           /\ \A j \in EventsOf("free") : trace[j].a # trace[i].a

\* a valid identifier string: hexadecimal digits only, as wide as the engine
\* prints an index (two words, or one digit less), with no leading zero
ValidId(str) ==
    /\ Len(str) \in {2 * HexDigitsPerWord - 1, 2 * HexDigitsPerWord}
    /\ \A i \in DOMAIN str : str[i] \in 0..(BASE_16 - 1)
    /\ str[1] # 0

\* C4: for every valid identifier string s, splitLongToH3Address applied to
\* the pair that h3AddressToSplitLong(s) returns is s again.
C4_CodecRoundTrip ==
    (op = "roundTrip" /\ ValidId(args.h3Address)) => result.val = args.h3Address

\* C4's case: a valid string whose low word starts with a zero digit and whose
\* high word fills the sign bit has come back unchanged
C4_Witness ==
    /\ op = "roundTrip"
    /\ ValidId(args.h3Address)
    /\ eng.pair[1] < BASE_16
    /\ eng.pair[2] >= HalfMod
    /\ result.val = args.h3Address

OptionalIdOps ==
    {"geoToH3", "h3ToParent", "getH3UnidirectionalEdge",
     "getOriginH3IndexFromUnidirectionalEdge",
     "getDestinationH3IndexFromUnidirectionalEdge"}

\* C5: an operation that returns an optional identifier returns null exactly
\* when the high word of the engine's long is 0, whatever the low word is, and
\* otherwise returns splitLongToH3Address(low, high); it never throws.
C5_NullIffHighWordZero ==
    op \in OptionalIdOps =>
        /\ result.kind \in {"null", "return"}
        /\ result.kind = "null" <=> eng.long[2] = 0
        /\ result.kind = "return" =>
               result.val = splitLongToH3Address(eng.long[1], eng.long[2])

\* C5's cases: a null for a long whose low word is not 0, and an identifier
\* for a long whose low word is 0
C5_Witness ==
    /\ op \in OptionalIdOps
    /\ \/ eng.long[1] # 0 /\ eng.long[2] = 0 /\ result.kind = "null"
       \/ eng.long[1] = 0 /\ eng.long[2] # 0 /\ result.kind = "return"

\* C6: every read of the out-of-band slot comes straight after the engine call
\* that returned the low word of the long, with no engine call between them,
\* and reads that call's high word; and every long the engine returns is read.
C6_HighWordReadRightAfterCall ==
    /\ \A i \in EventsOf("getTempRet0") :
           /\ i - 1 \in EventsOf("engine64")
           /\ trace[i].a = trace[i - 1].b
    /\ \A i \in EventsOf("engine64") : i + 1 \in EventsOf("getTempRet0")
    /\ op \in OptionalIdOps \cup {"numHexagons"} =>
           \A i \in EventsOf("engine64") : <<trace[i].a, trace[i].b>> = eng.long

\* C6's case: geoToH3 read a high word that differs from what the slot held
\* before the call and from what other engine calls leave in it
C6_Witness ==
    /\ op = "geoToH3"
    /\ result.kind = "return"
    /\ \E i \in EventsOf("getTempRet0") :
           trace[i].a = SampleHigh /\ trace[i].a # ScratchWord

ArrayOps ==
    {"h3ToChildren", "kRing", "hexRing", "polyfill", "compact", "uncompact",
     "getH3IndexesFromUnidirectionalEdge", "getH3UnidirectionalEdgesFromHexagon"}

NonEmptySlot(slot) == slot # <<0, 0>>

\* the identifiers of the slots that are not (0, 0), in slot order
IdsOfFilled(slots) ==
    LET filled == SelectSeq(slots, NonEmptySlot)
    IN  [k \in DOMAIN filled |-> splitLongToH3Address(filled[k][1], filled[k][2])]

\* the capacity an array operation allocated: the bytes of its last allocation
\* before the engine call, in indexes
Capacity ==
    LET call == CHOOSE i \in EventsOf("engine") : trace[i].name = op
        last == CHOOSE i \in EventsOf("malloc") :
                    i < call /\ \A j \in EventsOf("malloc") : j < call => j <= i
    IN  trace[last].b \div SZ_H3INDEX

\* C7: an operation that returns an array of identifiers returns, in slot
\* order, one identifier for each slot of its buffer that is not (0, 0): empty
\* slots are skipped wherever they are, slots with one word 0 are kept, and the
\* array is never longer than the capacity allocated.
C7_ArrayIsTheFilledSlots ==
    (op \in ArrayOps /\ Reached /\ result.kind = "return") =>
        /\ result.val = IdsOfFilled(eng.slots)
        /\ Len(result.val) <= Capacity

\* C7's case: an empty slot before a filled one was skipped, and a slot with a
\* high word of 0 and one with a low word of 0 were kept
C7_Witness ==
    /\ op \in ArrayOps
    /\ Reached
    /\ result.kind = "return"
    /\ Len(eng.slots) = 2
    /\ \/ eng.slots = <<<<0, 0>>, <<1, 0>>>> /\ Len(result.val) = 1
       \/ eng.slots = <<<<1, 0>>, <<0, SampleHigh>>>> /\ Len(result.val) = 2

\* a returned loop is closed over n points of the engine: one point more,
\* equal to the first
ClosedOver(loop, n) == Len(loop) = n + 1 /\ loop[Len(loop)] = FirstOf(loop)

\* a returned loop is open over n points of the engine
OpenOver(loop, n) == Len(loop) = n

\* every loop that h3SetToMultiPolygon returned, against the engine's loop
MultiPolygonLoops(P(_, _)) ==
    /\ Len(result.val) = Len(eng.polys)
    /\ \A p \in DOMAIN eng.polys :
           /\ Len(result.val[p]) = Len(eng.polys[p])
           /\ \A l \in DOMAIN eng.polys[p] :
                  P(result.val[p][l], Len(eng.polys[p][l]))

\* the loops returned follow the flag: closed when it is set, open when not
LoopsFollowFlag(closedOps) ==
    /\ (op \in closedOps \cap {"h3ToGeoBoundary", "getH3UnidirectionalEdgeBoundary"}) =>
           IF args.formatAsGeoJson THEN ClosedOver(result.val, Len(eng.verts))
           ELSE OpenOver(result.val, Len(eng.verts))
    /\ (op \in closedOps \cap {"h3SetToMultiPolygon"} /\ Reached) =>
           IF args.formatAsGeoJson THEN MultiPolygonLoops(ClosedOver)
           ELSE MultiPolygonLoops(OpenOver)

PointOf(point, coord, geoJson) ==
    LET lat == point[IF geoJson THEN 2 ELSE 1]
        lng == point[IF geoJson THEN 1 ELSE 2]
    IN  /\ Len(point) = 2
        /\ -90 < lat /\ lat <= 90
        /\ -180 < lng /\ lng <= 180
        /\ (lat - radsToDegs(coord[1])) % 180 = 0
        /\ (lng - radsToDegs(coord[2])) % 360 = 0

\* the engine's coordinate is in the range the engine writes
EngineRange(coord) ==
    /\ 0 <= radsToDegs(coord[1]) /\ radsToDegs(coord[1]) <= 180
    /\ 0 <= radsToDegs(coord[2]) /\ radsToDegs(coord[2]) <= 360

\* the first points of a returned loop are the engine's coordinates
LoopOf(loop, coords, geoJson) ==
    /\ Len(loop) >= Len(coords)
    /\ \A k \in DOMAIN coords :
           EngineRange(coords[k]) => PointOf(loop[k], coords[k], geoJson)
    /\ \A k \in DOMAIN loop :
           k > Len(coords) => (coords # <<>> /\ loop[k] = loop[1]) \/ loop[k] = Undefined

UnitFunction ==
    [hexArea |-> [m2 |-> "hexAreaM2", km2 |-> "hexAreaKm2"],
     edgeLength |-> [m |-> "edgeLengthM", km |-> "edgeLengthKm"]]

\* res is an integer in 0..15
ResIsValid(res) == res.type = "number" /\ res.twice \in {2 * r : r \in 0..15}

\* C10: hexArea and edgeLength throw, with no engine call made, when res is
\* not an integer in 0..15 or unit is not one of the units of the measurement;
\* otherwise they make exactly one engine call, the one of the unit, and
\* return what it answered.
C10_UnitsAndResolutionValidated ==
    op \in DOMAIN UnitFunction =>
        IF ResIsValid(args.res) /\ args.unit \in DOMAIN UnitFunction[op]
        THEN /\ result = [kind |-> "return", val |-> <<eng.value>>, msg |-> ""]
             /\ Cardinality(EngineCalls) = 1
             /\ \A i \in EngineCalls : trace[i].name = UnitFunction[op][args.unit]
        ELSE /\ result.kind = "throw"
             /\ EngineCalls = {}

\* C10's case: hexArea, given a valid resolution and a unit of length, threw
\* and called nothing
C10_Witness ==
    /\ op = "hexArea"
    /\ ResIsValid(args.res)
    /\ args.unit = UNITS.km
    /\ result.kind = "throw"
    /\ result.msg = "Unknown unit"
    /\ EngineCalls = {}

ResolutionOps ==
    {"geoToH3", "h3ToParent", "h3ToChildren", "polyfill", "uncompact",
     "hexArea", "edgeLength", "numHexagons"}

\* the call failed before it touched the engine or the heap
FailedFast ==
    /\ result.kind = "throw"
    /\ EngineCalls = {}
    /\ EventsOf("malloc") = {}

\* C11: an operation that takes a resolution, given one that is not an integer
\* in 0..15, throws before it calls the engine and before it allocates.
C11_BadResolutionFailsFast ==
    (op \in ResolutionOps /\ ~ResIsValid(args.res)) => FailedFast

\* C11, where it fails: geoToH3, given a resolution out of range, allocated the
\* coordinate, called the engine with that resolution and returned
C11_GeoToH3PassesBadResolution ==
    /\ op = "geoToH3"
    /\ args.res = ResNum(16)
    /\ EventsOf("malloc") # {}
    /\ Reached
    /\ result.kind \in {"return", "null"}

\* the part of C11 that the code keeps: the operations that call validateRes
BadResolutionFailsFastWhereValidated ==
    (op \in ResolutionOps \ {"geoToH3", "h3ToParent", "h3ToChildren"}
        /\ ~ResIsValid(args.res)) => FailedFast

\* the identifier arguments of the call, and its array of identifiers
IdArguments ==
    {args[f] : f \in (DOMAIN args) \cap {"h3Address", "origin", "destination", "edgeAddress"}}

IdArrayArgument ==
    IF op = "compact" THEN args.h3Set
    ELSE IF op = "uncompact" THEN args.compactedSet
    ELSE IF op = "h3SetToMultiPolygon" THEN args.h3Addresses
    ELSE <<>>

ValidityPredicates == {"h3IsValid", "h3UnidirectionalEdgeIsValid"}

\* the writes into the slot of the input array that holds element k; the
\* input array is the first block the call allocates
WritesOfElement(k) ==
    {i \in EventsOf("write") :
        \E j \in EventsOf("malloc") :
            /\ \A l \in EventsOf("malloc") : j <= l
            /\ trace[i].a \in {trace[j].a + SZ_H3INDEX * (k - 1),
                               trace[j].a + SZ_H3INDEX * (k - 1) + SZ_INT}}

\* C12: the pair that h3AddressToSplitLong gives for an argument that is no
\* string is passed to no engine function other than a validity predicate, and
\* is not written into an input array.
C12_SoftFailIsCheckedBeforeUse ==
    /\ NotAString \in IdArguments =>
           \A i \in EngineCalls :
               trace[i].in # <<>> => trace[i].name \in ValidityPredicates
    /\ \A k \in DOMAIN IdArrayArgument :
           IdArrayArgument[k] = NotAString => WritesOfElement(k) = {}

\* C12, where it fails: h3ToGeo, given an argument that is no string, passed
\* the pair <<0, 0>> to the engine's h3ToGeo, no validity predicate called
C12_H3ToGeoUsesSoftFail ==
    /\ op = "h3ToGeo"
    /\ args.h3Address = NotAString
    /\ \E i \in EngineCalls : trace[i].name = "h3ToGeo" /\ trace[i].in = <<0, 0>>
    /\ \A i \in EngineCalls : trace[i].name \notin ValidityPredicates
    /\ result.kind = "return"

\* C12, the other way it fails: compact wrote the pair of an element that is no
\* string into its input array and called the engine on the array
CompactStoresSoftFail ==
    /\ op = "compact"
    /\ Len(args.h3Set) > 0
    /\ args.h3Set[1] = NotAString
    /\ Cardinality(WritesOfElement(1)) = 2
    /\ Reached

\* what the caller passed to polyfill is an empty list, or a list whose first
\* loop has no point
NoLoopOrEmptyFirstLoop(coordinates) ==
    \/ coordinates.loops = <<>>
    \/ coordinates.loops[1] = <<>>

\* C13: polyfill, given a valid resolution and an empty list of loops or a
\* first loop with no point, returns the empty array, having called no engine
\* function and allocated nothing.
C13_EmptyPolyfillReturnsEmpty ==
    (op = "polyfill" /\ ResIsValid(args.res) /\ NoLoopOrEmptyFirstLoop(args.coordinates)) =>
        /\ result = [kind |-> "return", val |-> <<>>, msg |-> ""]
        /\ EngineCalls = {}
        /\ EventsOf("malloc") = {}
        /\ EventsOf("write") = {}

\* C13's case: the first loop is empty and a hole follows it; polyfill returned
\* the empty array and did nothing else
C13_Witness ==
    /\ op = "polyfill"
    /\ ResIsValid(args.res)
    /\ ~args.coordinates.single
    /\ Len(args.coordinates.loops) = 2
    /\ args.coordinates.loops[1] = <<>>
    /\ result = [kind |-> "return", val |-> <<>>, msg |-> ""]
    /\ Len(trace) = 1

\* C14: h3GetResolution returns a member of {-1, 0, ..., 15} for every input:
\* the resolution digit of a valid identifier string, and -1 for an input that
\* is no string, is empty, or has a second character that is no hexadecimal
\* digit.
C14_ResolutionOrMinusOne ==
    op = "h3GetResolution" =>
        /\ result.kind = "return"
        /\ result.val[1] \in (-1)..15
        /\ (~IsString(args.h3Address) \/ HexPrefixLen(charAt(args.h3Address, 1)) = 0)
               => result.val[1] = -1

\* C14, where it fails: given the empty string, or a string whose second
\* character is no hexadecimal digit, h3GetResolution returned NaN
C14_InvalidStringGivesNaN ==
    /\ op = "h3GetResolution"
    /\ IsString(args.h3Address)
    /\ args.h3Address \in {<<>>, <<SampleHigh, BASE_16>>}
    /\ result = [kind |-> "return", val |-> <<NaN>>, msg |-> ""]

\* the part of C14 that the code keeps: -1 for an input that is no string, and
\* the second digit for a string that has one
ResolutionOfNonStringAndOfDigit ==
    op = "h3GetResolution" =>
        /\ ~IsString(args.h3Address) => result.val = <<-1>>
        /\ (IsString(args.h3Address) /\ Len(args.h3Address) >= 2
                /\ args.h3Address[2] < BASE_16) => result.val = <<args.h3Address[2]>>

\* the calls of the engine's destroyLinkedPolygon
DestroyLinkedCalls == {i \in EngineCalls : trace[i].name = "destroyLinkedPolygon"}

\* the blocks h3SetToMultiPolygon allocates: the input set, then the root
SetAndRoot == {trace[i].a : i \in EventsOf("malloc")}

\* C15: in h3SetToMultiPolygon, readMultiPolygon frees nothing and calls no
\* engine function while it follows the chains; destroyLinkedPolygon is called
\* exactly once, on the root, after the last read of a node and before the
\* root block and the input set are freed; no node is read after that call.
C15_WalkerReadsThenEngineDestroys ==
    (op = "h3SetToMultiPolygon" /\ Len(args.h3Addresses) > 0) =>
        /\ (EventsOf("free") \cup EngineCalls) \cap Within("readMultiPolygon") = {}
        /\ Cardinality(DestroyLinkedCalls) = 1
        /\ \A d \in DestroyLinkedCalls :
               /\ \E r \in EventsOf("malloc") :
                      /\ \A i \in EventsOf("malloc") : i <= r
                      /\ trace[d].a = trace[r].a
               /\ \A i \in EventsOf("read") : i < d
               /\ \A i \in EventsOf("leave") : i < d
               /\ \A i \in EventsOf("free") : d < i
        /\ {trace[i].a : i \in EventsOf("free")} = SetAndRoot
        /\ Cardinality(EventsOf("free")) = 2

\* C15's case: the engine linked two polygons, the walker read their nodes,
\* and the one call of destroyLinkedPolygon came after the reads
C15_Witness ==
    /\ op = "h3SetToMultiPolygon"
    /\ Len(args.h3Addresses) > 0
    /\ Len(eng.polys) = 2
    /\ Len(result.val) = 2
    /\ Cardinality(EventsOf("read")) > 6
    /\ \E d \in DestroyLinkedCalls : \A i \in EventsOf("read") : i < d

\* the word as the unsigned number it stands for
Unsigned(w) == w % WordMod

\* the number a string of digits denotes, most significant digit first
RECURSIVE ValueOf(_)
ValueOf(str) ==
    IF str = <<>> THEN 0
    ELSE Head(str) * BASE_16 ^ (Len(str) - 1) + ValueOf(Tail(str))

\* str is the hexadecimal rendering of n: hexadecimal digits only, at least
\* one, no leading zero unless n is 0
IsHexOf(str, n) ==
    /\ Len(str) >= 1
    /\ \A i \in DOMAIN str : str[i] \in 0..(BASE_16 - 1)
    /\ Len(str) > 1 => str[1] # 0
    /\ ValueOf(str) = n

\* C16: hexFrom32Bit of a word read as a signed integer is the hexadecimal
\* rendering of the word's unsigned value, a full word of digits when the word
\* is negative; and splitLongToH3Address(low, high) with high # 0 is the
\* hexadecimal rendering of the unsigned two-word value.
C16_WordsRenderUnsigned ==
    op = "splitLongToH3Address" =>
        /\ IsHexOf(eng.lower, Unsigned(args.lower))
        /\ IsHexOf(eng.upper, Unsigned(args.upper))
        /\ args.lower < 0 => Len(eng.lower) = HexDigitsPerWord
        /\ args.upper < 0 => Len(eng.upper) = HexDigitsPerWord
        /\ args.upper # 0 =>
               IsHexOf(result.val, Unsigned(args.upper) * WordMod + Unsigned(args.lower))

\* C16's case: the low word has only its sign bit set and the high word is
\* negative; the low word was rendered as 8 and zeros, the pair as two full
\* words of digits
C16_Witness ==
    /\ op = "splitLongToH3Address"
    /\ args.lower = 0 - HalfMod
    /\ args.upper = -1
    /\ eng.lower = <<SampleHigh>> \o [i \in 1..(HexDigitsPerWord - 1) |-> 0]
    /\ Len(result.val) = 2 * HexDigitsPerWord
    /\ result.val[1] = BASE_16 - 1

\* the count the engine returned, from its two words taken as unsigned
EngineCount == Unsigned(eng.long[2]) * WordMod + Unsigned(eng.long[1])

\* C17: numHexagons, given a valid resolution, returns the engine's count,
\* high * 2^32 + low with both words unsigned, also when the low word reaches
\* the host as a negative number; the result is never negative.
C17_CountIsTheEnginesCount ==
    (op = "numHexagons" /\ ResIsValid(args.res)) =>
        /\ result.kind = "return"
        /\ result.val = <<EngineCount>>
        /\ result.val[1] >= 0

\* C17, where it fails: the low word of the count has its top bit set and
\* reached the host negative; numHexagons returned the count less 2^32
C17_CountShortByOneWord ==
    /\ op = "numHexagons"
    /\ ResIsValid(args.res)
    /\ eng.long[1] < 0
    /\ eng.long[2] > 0
    /\ result.kind = "return"
    /\ result.val = <<EngineCount - WordMod>>

\* the part of C17 that the code keeps: the count when the low word is not
\* negative
CountIsRightWhenLowWordIsPositive ==
    (op = "numHexagons" /\ ResIsValid(args.res) /\ eng.long[1] >= 0) =>
        result = [kind |-> "return", val |-> <<EngineCount>>, msg |-> ""]

\* the block allocated at event i is still allocated at event j
LiveAt(i, j) ==
    /\ i < j
    /\ \A k \in EventsOf("free") : (i < k /\ k < j) => trace[k].a # trace[i].a

\* event j touches bytes that all lie inside the bytes requested at event i
Inside(i, j) ==
    /\ trace[i].a <= trace[j].a
    /\ trace[j].a + trace[j].b <= trace[i].a + trace[i].b

\* the writes of the host and the engine calls that wrote bytes
WritesIntoBlocks ==
    EventsOf("write") \cup {j \in EventsOf("engine") : trace[j].b > 0}

InsideALiveBlock(j) == \E i \in EventsOf("malloc") : LiveAt(i, j) /\ Inside(i, j)

\* C18: every write of the host or of the engine into a block a call allocated
\* lies inside the bytes that were requested for the block (so the polygon
\* header has SZ_GEOPOLYGON bytes and the linked root SZ_LINKED_GEOPOLYGON),
\* and every read of destroyGeoPolygon lies inside a block still allocated.
C18_BlocksHoldWhatIsWritten ==
    /\ \A j \in WritesIntoBlocks : InsideALiveBlock(j)
    /\ \A j \in EventsOf("read") \cap Within("destroyGeoPolygon") : InsideALiveBlock(j)
    /\ \A i \in EventsOf("malloc") \cap Within("coordinatesToGeoPolygon") :
           (\A k \in EventsOf("malloc") : i <= k) => trace[i].b >= SZ_GEOPOLYGON
    /\ op = "h3SetToMultiPolygon" =>
           \A j \in EventsOf("engine") :
               trace[j].name = "h3SetToLinkedGeo" =>
                   \E i \in EventsOf("malloc") :
                       trace[i].a = trace[j].a /\ trace[i].b >= SZ_LINKED_GEOPOLYGON

\* C18, where it fails: the polygon header was requested with 0 bytes, and
\* the host wrote the holes pointer at its byte 12 while it was allocated
C18_HeaderRequestedWithNoBytes ==
    /\ op = "polyfill"
    /\ \E i \in EventsOf("malloc") \cap Within("coordinatesToGeoPolygon") :
           /\ trace[i].b = 0
           /\ \E j \in EventsOf("write") :
                  /\ LiveAt(i, j)
                  /\ trace[j].a = trace[i].a + SZ_GEOFENCE + SZ_INT

\* C18, the other block: the linked root was requested with 0 bytes and the
\* engine wrote SZ_LINKED_GEOPOLYGON bytes at it
RootRequestedWithNoBytes ==
    /\ op = "h3SetToMultiPolygon"
    /\ \E i \in EventsOf("malloc") : \E j \in EventsOf("engine") :
           /\ trace[i].b = 0
           /\ trace[j].a = trace[i].a
           /\ trace[j].b = SZ_LINKED_GEOPOLYGON

\* the part of C18 that the code keeps: the operations that build neither a
\* polygon nor a linked root write inside what they requested
BlocksHoldWhatIsWrittenElsewhere ==
    op \notin {"polyfill", "h3SetToMultiPolygon"} =>
        \A j \in WritesIntoBlocks : InsideALiveBlock(j)

=============================================================================
